---- MODULE Spec2Model ----
(***************************************************************************)
(* A model of the Minix filesystem driver fs/minix/inode.c: the superblock *)
(* parser and mount (minix_fill_super), remount (minix_remount), unmount   *)
(* (minix_put_super) and inode eviction (minix_evict_inode,                *)
(* minix_truncate), over a block device whose blocks are seen through the  *)
(* buffer cache.                                                           *)
(***************************************************************************)
EXTENDS Integers, Sequences, FiniteSets, TLC

(***************************************************************************)
(* Program constants.                                                      *)
(***************************************************************************)
BLOCK_SIZE == 1024
MINIX_ROOT_INO == 1

MINIX_SUPER_MAGIC == 4991
MINIX_SUPER_MAGIC2 == 5007
MINIX2_SUPER_MAGIC == 9320
MINIX2_SUPER_MAGIC2 == 9336
MINIX3_SUPER_MAGIC == 19802

MINIX_V1 == 1
MINIX_V2 == 2
MINIX_V3 == 3

MINIX_VALID_FS == 1
MINIX_ERROR_FS == 2

MINIX_LINK_MAX == 250
MINIX2_LINK_MAX == 65530

EINVAL == 22
ENOMEM == 12
EBUSY == 16
EPERM == 1
EIO == 5

\* the null pointer, where an object is expected
NULL == [null |-> TRUE]

(***************************************************************************)
(* Bounds of the model.                                                    *)
(***************************************************************************)
\* the largest s_imap_blocks / s_zmap_blocks a superblock image declares
MaxMapBlocks == 2
\* inodes 1..MaxIno of the inode table are modelled
MaxIno == 2

\* Upper bound on the callers that are inside minix_iget at one time.
MaxTasks == 2

\* Upper bound on the inodes allocated from the inode pool at one time.
MaxObjs == 2

\* Network namespaces 1..MaxNs, and the most mounts that share a superblock.
MaxNs == 2
MaxMounts == 2

(***************************************************************************)
(* Bit operations on the 16-bit state word (b is a power of two).          *)
(***************************************************************************)
HasBit(x, b) == (x \div b) % 2 = 1
ClearBit(x, b) == IF HasBit(x, b) THEN x - b ELSE x

(***************************************************************************)
(* The superblock block (device block 1) seen through its two layouts:     *)
(* ms is struct minix_super_block, m3s is struct minix3_super_block.       *)
(***************************************************************************)
BitsPerBlock(blocksize) == 8 * blocksize

\* Geometries mkfs may have written: the inode and zone counts sit at and
\* around one bitmap block's worth, the bitmap block counts run from 0.
Geometries ==
    [s_ninodes : {16, BitsPerBlock(BLOCK_SIZE), BitsPerBlock(BLOCK_SIZE) + 1},
     s_firstdatazone : {5},
     zonebits : {9, BitsPerBlock(BLOCK_SIZE) + 1},
     s_imap_blocks : 0..MaxMapBlocks,
     s_zmap_blocks : 0..MaxMapBlocks]

\* number of zones of a geometry: zonebits = nzones - firstdatazone + 1
ZonesOf(g) == g.zonebits + g.s_firstdatazone - 1

EmptyMs ==
    [s_ninodes |-> 0, s_nzones |-> 0, s_imap_blocks |-> 0, s_zmap_blocks |-> 0,
     s_firstdatazone |-> 0, s_magic |-> 0, s_state |-> 0, s_zones |-> 0]

EmptyM3s ==
    [s_ninodes |-> 0, s_imap_blocks |-> 0, s_zmap_blocks |-> 0,
     s_firstdatazone |-> 0, s_zones |-> 0, s_magic |-> 0, s_blocksize |-> 0]

\* a V1 image keeps its zone count in the 16-bit s_nzones, a V2 image in the
\* 32-bit s_zones; the bytes at offset 24 (m3magic) are not part of either
ImageV12(magic, g, st, m3magic) ==
    [ms |-> [s_ninodes |-> g.s_ninodes,
             s_nzones |-> IF magic \in {MINIX_SUPER_MAGIC, MINIX_SUPER_MAGIC2}
                          THEN ZonesOf(g) ELSE 0,
             s_imap_blocks |-> g.s_imap_blocks,
             s_zmap_blocks |-> g.s_zmap_blocks,
             s_firstdatazone |-> g.s_firstdatazone,
             s_magic |-> magic,
             s_state |-> st,
             s_zones |-> IF magic \in {MINIX2_SUPER_MAGIC, MINIX2_SUPER_MAGIC2}
                         THEN ZonesOf(g) ELSE 0],
     m3s |-> [EmptyM3s EXCEPT !.s_magic = m3magic]]

\* a V3 image: the V1/V2 view of its bytes holds no magic, and whatever
\* lies at the offset of s_state (st)
ImageV3(g, st, bs) ==
    [ms |-> [EmptyMs EXCEPT !.s_state = st],
     m3s |-> [s_ninodes |-> g.s_ninodes,
              s_imap_blocks |-> g.s_imap_blocks,
              s_zmap_blocks |-> g.s_zmap_blocks,
              s_firstdatazone |-> g.s_firstdatazone,
              s_zones |-> ZonesOf(g),
              s_magic |-> MINIX3_SUPER_MAGIC,
              s_blocksize |-> bs]]

StateWords == 0..(MINIX_VALID_FS + MINIX_ERROR_FS)

V12Magics ==
    {MINIX_SUPER_MAGIC, MINIX_SUPER_MAGIC2, MINIX2_SUPER_MAGIC, MINIX2_SUPER_MAGIC2}

\* a geometry whose bitmaps suffice
SmallGeometry ==
    [s_ninodes |-> 16, s_firstdatazone |-> 5, zonebits |-> 9,
     s_imap_blocks |-> 1, s_zmap_blocks |-> 1]

\* The images a device may hold: every geometry in every format, every
\* state word in every format, and a block that holds no magic at all.
Images ==
    {ImageV12(m, g, MINIX_VALID_FS, 0) : m \in V12Magics, g \in Geometries}
    \cup {ImageV3(g, 0, bs) : g \in Geometries,
                              bs \in {BLOCK_SIZE, 2 * BLOCK_SIZE}}
    \cup {ImageV12(m, SmallGeometry, st, m3) :
              m \in V12Magics, st \in StateWords,
              m3 \in {0, MINIX3_SUPER_MAGIC}}
    \cup {ImageV3(SmallGeometry, st, bs) :
              st \in StateWords, bs \in {BLOCK_SIZE, 2 * BLOCK_SIZE}}
    \cup {[ms |-> EmptyMs, m3s |-> EmptyM3s]}

(***************************************************************************)
(* The inode table and the zone trees of the device.                       *)
(***************************************************************************)
FileTypes == {"REG", "DIR", "LNK", "CHR", "BLK", "FIFO", "SOCK"}
S_ISREG(m) == m = "REG"
S_ISDIR(m) == m = "DIR"
S_ISLNK(m) == m = "LNK"

Inos == MINIX_ROOT_INO..MaxIno
\* the data zones of the small geometry: firstdatazone 5, 8 zones
Zones == 5..12

\* zone array of a raw inode, C index 0..9 at sequence index 1..10:
\* 0..6 direct, 7 single-, 8 double-, 9 triple-indirect (V2/V3 only)
ZoneArray(d0, d1, ind, dind, tind) == <<d0, d1, 0, 0, 0, 0, 0, ind, dind, tind>>

ZoneTemplates ==
    {ZoneArray(0, 0, 0, 0, 0),
     ZoneArray(6, 7, 0, 0, 0),
     ZoneArray(6, 0, 8, 0, 0),
     ZoneArray(6, 7, 8, 10, 0),
     ZoneArray(6, 0, 0, 0, 10)}

\* contents of the zones that serve as indirect blocks (zone numbers, 0 = hole)
Indir0 ==
    [z \in Zones |-> CASE z = 8 -> <<9>>
                       [] z = 10 -> <<11>>
                       [] z = 11 -> <<12>>
                       [] OTHER -> << >>]

\* a raw inode record; a V1 record has the one time i_time, a V2 record the
\* three times i_mtime, i_atime, i_ctime
RawInode(mode, ids, nlinks, size, times, zone) ==
    [i_mode |-> mode, i_uid |-> ids[1], i_gid |-> ids[2], i_nlinks |-> nlinks,
     i_size |-> size, i_time |-> times[1], i_mtime |-> times[1],
     i_atime |-> times[2], i_ctime |-> times[3], i_zone |-> zone]

RawInodes ==
    {RawInode(m, <<0, 0>>, n, sz, <<0, 0, 0>>, z) :
         m \in FileTypes, n \in {0, 1}, sz \in {0, 2 * BLOCK_SIZE},
         z \in ZoneTemplates}

RootRaw ==
    RawInode("DIR", <<0, 0>>, 2, BLOCK_SIZE, <<0, 0, 0>>,
             ZoneArray(5, 0, 0, 0, 0))

PlainRaw ==
    RawInode("REG", <<0, 0>>, 1, 0, <<0, 0, 0>>, ZoneArray(0, 0, 0, 0, 0))

(***************************************************************************)
(* State.                                                                  *)
(***************************************************************************)
VARIABLES
    disk,     \* block 1 as the buffer cache shows it: [ms, m3s]
    imap,     \* set bits of the inode bitmap blocks (bit n = inode n)
    zmap,     \* set bits of the zone bitmap blocks
    itable,   \* raw inode records, by inode number
    indir,    \* contents of the indirect blocks, by zone number
    b_count,  \* reference count of each block buffer
    b_dirty,  \* the block buffers marked dirty
    b_warn,   \* a buffer was released that nobody held
    sb,       \* struct super_block
    sbi,      \* struct minix_sb_info (NULL: not allocated)
    kmem,     \* live allocations: [sbi, map]
    icache,   \* the in-memory inodes, by inode number (NULL: not cached)
    tasks,    \* the callers inside minix_iget: [of, reads]
    mod,      \* the module: inode pool, registration, objects of the pool
    sysfs,    \* sysfs and lshfs: kernfs roots, registration, superblocks
    last      \* the operation that led to this state, and what it returned

vars ==
    <<disk, imap, zmap, itable, indir, b_count, b_dirty, b_warn, sb, sbi, kmem,
      icache, tasks, mod, sysfs, last>>

SB_BLOCK == 1
\* the superblock, the bitmap blocks and the first block of the inode table
Blocks == SB_BLOCK..(SB_BLOCK + 2 * MaxMapBlocks + 1)

\* the program state as one value, which the operations below transform
Cur ==
    [disk |-> disk, imap |-> imap, zmap |-> zmap, itable |-> itable,
     indir |-> indir, b_count |-> b_count, b_dirty |-> b_dirty,
     b_warn |-> b_warn, sb |-> sb, sbi |-> sbi, kmem |-> kmem,
     icache |-> icache]

CommitVolume(c) ==
    /\ disk' = c.disk
    /\ imap' = c.imap
    /\ zmap' = c.zmap
    /\ itable' = c.itable
    /\ indir' = c.indir
    /\ b_count' = c.b_count
    /\ b_dirty' = c.b_dirty
    /\ b_warn' = c.b_warn
    /\ sb' = c.sb
    /\ sbi' = c.sbi
    /\ kmem' = c.kmem
    /\ icache' = c.icache
    /\ UNCHANGED <<mod, sysfs>>

\* an operation that runs from start to end with no caller inside minix_iget
Commit(c) == CommitVolume(c) /\ UNCHANGED tasks

NoSb ==
    [s_fs_info |-> "NULL", s_rdonly |-> FALSE, s_blocksize |-> 0, s_magic |-> 0,
     s_max_links |-> 0, s_root |-> FALSE]

(***************************************************************************)
(* The Block I/O port and the allocator.                                   *)
(***************************************************************************)
\* a successful sb_bread: the buffer is returned with a reference taken
sb_bread(c, block) == [c EXCEPT !.b_count[block] = @ + 1]

\* brelse(NULL) does nothing; bh is a block number, 0 for NULL
brelse(c, bh) ==
    IF bh = 0 THEN c
    ELSE IF c.b_count[bh] = 0 THEN [c EXCEPT !.b_warn = TRUE]
    ELSE [c EXCEPT !.b_count[bh] = @ - 1]

mark_buffer_dirty(c, bh) == [c EXCEPT !.b_dirty = @ \cup {bh}]

RECURSIVE brelse_all(_, _)
brelse_all(c, bhs) ==
    IF bhs = << >> THEN c ELSE brelse_all(brelse(c, Head(bhs)), Tail(bhs))

\* sync_filesystem: a writable filesystem's dirty buffers are written out
sync_filesystem(c) == IF c.sb.s_rdonly THEN c ELSE [c EXCEPT !.b_dirty = {}]

(***************************************************************************)
(* Zone trees and the truncation walkers (itree): a zone array slot at C   *)
(* index i is a data zone for i < 7 and the root of an indirect tree of    *)
(* depth i - 6 above that.                                                 *)
(***************************************************************************)
DIRECT == 7

RECURSIVE Pow(_, _)
Pow(b, e) == IF e = 0 THEN 1 ELSE b * Pow(b, e - 1)

\* zone numbers per indirect block: 16-bit for V1, 32-bit for V2/V3
PtrsPerBlock(version, blocksize) ==
    IF version = MINIX_V1 THEN blocksize \div 2 ELSE blocksize \div 4

SlotDepth(i) == IF i < DIRECT THEN 0 ELSE i - DIRECT + 1

\* first logical block a slot's subtree covers
SlotBase(i, P) ==
    CASE i < DIRECT -> i
      [] i = DIRECT -> DIRECT
      [] i = DIRECT + 1 -> DIRECT + P
      [] OTHER -> DIRECT + P + P * P

\* the zones reachable from zone z, the root of a subtree of depth d
RECURSIVE Reach(_, _, _)
Reach(z, d, ind) ==
    IF z = 0 THEN {}
    ELSE IF d = 0 \/ z \notin DOMAIN ind THEN {z}
    ELSE {z} \cup UNION {Reach(ind[z][j], d - 1, ind) : j \in DOMAIN ind[z]}

\* the zones reachable from a zone array
ReachAll(i_data, ind) ==
    UNION {Reach(i_data[k], SlotDepth(k - 1), ind) : k \in DOMAIN i_data}

\* whether the subtree of z at depth d, covering logical blocks from base on,
\* still holds a block below logical block n
RECURSIVE Kept(_, _, _, _, _, _)
Kept(z, d, base, n, ind, P) ==
    /\ z # 0
    /\ IF d = 0 \/ z \notin DOMAIN ind THEN base < n
       ELSE \E j \in DOMAIN ind[z] :
                Kept(ind[z][j], d - 1, base + (j - 1) * Pow(P, d - 1), n, ind, P)

\* the zones of that subtree which truncation to n logical blocks frees
RECURSIVE Freed(_, _, _, _, _, _)
Freed(z, d, base, n, ind, P) ==
    IF z = 0 THEN {}
    ELSE IF d = 0 \/ z \notin DOMAIN ind
         THEN (IF base < n THEN {} ELSE {z})
    ELSE (IF Kept(z, d, base, n, ind, P) THEN {} ELSE {z})
         \cup UNION {Freed(ind[z][j], d - 1, base + (j - 1) * Pow(P, d - 1),
                           n, ind, P) : j \in DOMAIN ind[z]}

\* the indirect blocks of that subtree, each with its depth and base
RECURSIVE Nodes(_, _, _, _, _)
Nodes(z, d, base, ind, P) ==
    IF z = 0 \/ d = 0 \/ z \notin DOMAIN ind THEN {}
    ELSE {[z |-> z, d |-> d, base |-> base]}
         \cup UNION {Nodes(ind[z][j], d - 1, base + (j - 1) * Pow(P, d - 1),
                           ind, P) : j \in DOMAIN ind[z]}

\* bit of the zone bitmap that stands for zone z
ZoneBit(c, z) == z - c.sbi.s_firstdatazone + 1

minix_free_block(c, zs) == [c EXCEPT !.zmap = @ \ {ZoneBit(c, z) : z \in zs}]

minix_free_inode(c, ino) == [c EXCEPT !.imap = @ \ {ino}]

\* truncate the first `width` slots of inode ino to its i_size
truncate(c, ino, width) ==
    LET inode == c.icache[ino]
        bs == c.sb.s_blocksize
        P == PtrsPerBlock(c.sbi.s_version, bs)
        n == (inode.i_size + bs - 1) \div bs
        slots == 1..width
        dep(k) == SlotDepth(k - 1)
        bas(k) == SlotBase(k - 1, P)
        freed == UNION {Freed(inode.i_data[k], dep(k), bas(k), n, c.indir, P)
                        : k \in slots}
        nodes == UNION {Nodes(inode.i_data[k], dep(k), bas(k), c.indir, P)
                        : k \in slots}
        newind == [y \in DOMAIN c.indir |->
                     IF \E t \in nodes : t.z = y
                     THEN LET t == CHOOSE t \in nodes : t.z = y
                          IN [j \in DOMAIN c.indir[y] |->
                                IF Kept(c.indir[y][j], t.d - 1,
                                        t.base + (j - 1) * Pow(P, t.d - 1),
                                        n, c.indir, P)
                                THEN c.indir[y][j] ELSE 0]
                     ELSE c.indir[y]]
        newdata == [k \in DOMAIN inode.i_data |->
                      IF k \in slots
                         /\ ~Kept(inode.i_data[k], dep(k), bas(k), n, c.indir, P)
                      THEN 0 ELSE inode.i_data[k]]
    IN minix_free_block([c EXCEPT !.icache[ino].i_data = newdata,
                                  !.indir = newind], freed)

V1_minix_truncate(c, ino) == truncate(c, ino, 9)
V2_minix_truncate(c, ino) == truncate(c, ino, 10)

(***************************************************************************)
(* Inodes.                                                                 *)
(***************************************************************************)
INODE_VERSION(c) == c.sbi.s_version

S_ISCHR(m) == m = "CHR"
S_ISBLK(m) == m = "BLK"

\* dev_t: MKDEV(major, minor), and the 16-bit device encoding of the raw
\* inode, which old_decode_dev takes as a u16
MKDEV(ma, mi) == ma * 1048576 + mi
old_decode_dev(val) == MKDEV(((val % 65536) \div 256) % 256, val % 256)
old_encode_dev(dev) == (((dev \div 1048576) * 256) + (dev % 256)) % 65536

\* the entry iget_locked makes when the inode is not cached: I_NEW is set
\* and nothing is filled in
NewInode ==
    [i_mode |-> "NONE", i_uid |-> 0, i_gid |-> 0, i_nlink |-> 0, i_size |-> 0,
     i_mtime |-> 0, i_atime |-> 0, i_ctime |-> 0, i_data |-> << >>,
     i_rdev |-> 0, i_op |-> "none", i_state |-> {"I_NEW"}]

iget_locked(c, ino) ==
    IF c.icache[ino] # NULL THEN c ELSE [c EXCEPT !.icache[ino] = NewInode]

unlock_new_inode(c, ino) == [c EXCEPT !.icache[ino].i_state = @ \ {"I_NEW"}]

\* iget_failed: the entry is made bad and leaves the cache
iget_failed(c, ino) == [c EXCEPT !.icache[ino] = NULL]

\* lines 490-506: the operation set by file type; a device node gets rdev
minix_set_inode(inode, rdev) ==
    CASE S_ISREG(inode.i_mode) -> [inode EXCEPT !.i_op = "file"]
      [] S_ISDIR(inode.i_mode) -> [inode EXCEPT !.i_op = "dir"]
      [] S_ISLNK(inode.i_mode) -> [inode EXCEPT !.i_op = "symlink"]
      [] OTHER -> [inode EXCEPT !.i_op = "special",
                                !.i_rdev = IF S_ISCHR(inode.i_mode)
                                              \/ S_ISBLK(inode.i_mode)
                                           THEN rdev ELSE @]

\* block of the inode table that holds the raw record of ino: the table
\* follows the bitmaps, and the inodes modelled are in its first block
InodeBlock(c, ino) == 2 + c.sbi.s_imap_blocks + c.sbi.s_zmap_blocks

\* minix_V1_raw_inode, minix_V2_raw_inode: the block is read and held
minix_raw_inode(c, ino) == sb_bread(c, InodeBlock(c, ino))

\* variant: the latch is released with the mode, ids and times filled in
V1_iget_fields_unlocks(c, ino) ==
    LET raw == c.itable[ino]
    IN [c EXCEPT !.icache[ino] =
           [@ EXCEPT !.i_mode = raw.i_mode, !.i_uid = raw.i_uid,
                     !.i_gid = raw.i_gid, !.i_nlink = raw.i_nlinks,
                     !.i_size = raw.i_size, !.i_mtime = raw.i_time,
                     !.i_atime = raw.i_time, !.i_ctime = raw.i_time,
                     !.i_state = @ \ {"I_NEW"}]]

\* lines 524-533: mode, ids, link count, size and the one time of a V1 record
V1_iget_fields(c, ino) ==
    LET raw == c.itable[ino]
    IN [c EXCEPT !.icache[ino] =
           [@ EXCEPT !.i_mode = raw.i_mode, !.i_uid = raw.i_uid,
                     !.i_gid = raw.i_gid, !.i_nlink = raw.i_nlinks,
                     !.i_size = raw.i_size, !.i_mtime = raw.i_time,
                     !.i_atime = raw.i_time, !.i_ctime = raw.i_time]]

\* lines 534-540: the nine zone words, the operation set, the buffer
V1_iget_zones(c, ino) ==
    LET raw == c.itable[ino]
    IN brelse([c EXCEPT !.icache[ino] =
                  minix_set_inode([@ EXCEPT !.i_data = SubSeq(raw.i_zone, 1, 9)],
                                  old_decode_dev(raw.i_zone[1]))],
              InodeBlock(c, ino))

\* V1_minix_iget when the raw record can be read
V1_minix_iget(c, ino) ==
    unlock_new_inode(
        V1_iget_zones(V1_iget_fields(minix_raw_inode(c, ino), ino), ino), ino)

\* lines 560-571
V2_iget_fields(c, ino) ==
    LET raw == c.itable[ino]
    IN [c EXCEPT !.icache[ino] =
           [@ EXCEPT !.i_mode = raw.i_mode, !.i_uid = raw.i_uid,
                     !.i_gid = raw.i_gid, !.i_nlink = raw.i_nlinks,
                     !.i_size = raw.i_size, !.i_mtime = raw.i_mtime,
                     !.i_atime = raw.i_atime, !.i_ctime = raw.i_ctime]]

\* lines 572-575: the ten zone words, the operation set, the buffer
V2_iget_zones(c, ino) ==
    LET raw == c.itable[ino]
    IN brelse([c EXCEPT !.icache[ino] =
                  minix_set_inode([@ EXCEPT !.i_data = SubSeq(raw.i_zone, 1, 10)],
                                  old_decode_dev(raw.i_zone[1]))],
              InodeBlock(c, ino))

\* V2_minix_iget when the raw record can be read
V2_minix_iget(c, ino) ==
    unlock_new_inode(
        V2_iget_zones(V2_iget_fields(minix_raw_inode(c, ino), ino), ino), ino)

\* fs_high2lowuid, fs_high2lowgid: an id that does not fit 16 bits is
\* stored as the overflow id
fs_high2lowuid(id) == IF id > 65535 THEN 65534 ELSE id

\* the zone words a raw record gets: a device node has its device number put
\* in word 0 and keeps the others, any other inode gets the first n words of
\* the in-memory zone array, each cut to the width of an on-disk zone word
RawZones(raw, inode, n, width) ==
    IF S_ISCHR(inode.i_mode) \/ S_ISBLK(inode.i_mode)
    THEN [raw.i_zone EXCEPT ![1] = old_encode_dev(inode.i_rdev)]
    ELSE [k \in DOMAIN raw.i_zone |->
            IF k <= n THEN inode.i_data[k] % width ELSE raw.i_zone[k]]

\* lines 617-631: the raw record is filled from the inode and its buffer is
\* marked dirty; the buffer stays held. i_uid is 16 bits wide, i_gid and
\* i_nlinks are 8; the 32-bit fields hold every value that occurs here
V1_minix_update_inode(c, ino) ==
    LET inode == c.icache[ino]
        raw == c.itable[ino]
        c1 == minix_raw_inode(c, ino)
    IN mark_buffer_dirty(
           [c1 EXCEPT !.itable[ino] =
               [raw EXCEPT !.i_mode = inode.i_mode,
                           !.i_uid = fs_high2lowuid(inode.i_uid) % 65536,
                           !.i_gid = fs_high2lowuid(inode.i_gid) % 256,
                           !.i_nlinks = inode.i_nlink % 256,
                           !.i_size = inode.i_size,
                           !.i_time = inode.i_mtime,
                           !.i_zone = RawZones(raw, inode, 9, 65536)]],
           InodeBlock(c, ino))

\* variant: the modification time is stored in all three time fields
V2_minix_update_inode_one_time(c, ino) ==
    LET inode == c.icache[ino]
        raw == c.itable[ino]
        c1 == minix_raw_inode(c, ino)
    IN mark_buffer_dirty(
           [c1 EXCEPT !.itable[ino] =
               [raw EXCEPT !.i_mode = inode.i_mode,
                           !.i_uid = fs_high2lowuid(inode.i_uid) % 65536,
                           !.i_gid = fs_high2lowuid(inode.i_gid) % 65536,
                           !.i_nlinks = inode.i_nlink % 65536,
                           !.i_size = inode.i_size,
                           !.i_mtime = inode.i_mtime,
                           !.i_atime = inode.i_mtime,
                           !.i_ctime = inode.i_mtime,
                           !.i_zone = RawZones(raw, inode, 10, 2147483647)]],
           InodeBlock(c, ino))

\* lines 648-660: all fields are 16 or 32 bits wide
V2_minix_update_inode(c, ino) ==
    LET inode == c.icache[ino]
        raw == c.itable[ino]
        c1 == minix_raw_inode(c, ino)
    IN mark_buffer_dirty(
           [c1 EXCEPT !.itable[ino] =
               [raw EXCEPT !.i_mode = inode.i_mode,
                           !.i_uid = fs_high2lowuid(inode.i_uid) % 65536,
                           !.i_gid = fs_high2lowuid(inode.i_gid) % 65536,
                           !.i_nlinks = inode.i_nlink % 65536,
                           !.i_size = inode.i_size,
                           !.i_mtime = inode.i_mtime,
                           !.i_atime = inode.i_atime,
                           !.i_ctime = inode.i_ctime,
                           !.i_zone = RawZones(raw, inode, 10, 2147483647)]],
           InodeBlock(c, ino))

buffer_dirty(c, bh) == bh \in c.b_dirty

\* sync_dirty_buffer: the buffer is written out and is clean afterwards
sync_dirty_buffer(c, bh) == [c EXCEPT !.b_dirty = @ \ {bh}]

WriteEnvs == [raw_ok : BOOLEAN, sync : BOOLEAN, req : BOOLEAN, uptodate : BOOLEAN]

\* variant: the write is forced whatever the sync mode
minix_write_inode_always_syncs(c, ino, env) ==
    IF ~env.raw_ok
    THEN [c |-> c, ret |-> -EIO, forced |-> FALSE, dirty |-> FALSE]
    ELSE LET bh == InodeBlock(c, ino)
             c1 == IF INODE_VERSION(c) = MINIX_V1
                   THEN V1_minix_update_inode(c, ino)
                   ELSE V2_minix_update_inode(c, ino)
             force == buffer_dirty(c1, bh)
             c2 == IF force THEN sync_dirty_buffer(c1, bh) ELSE c1
             err == IF force /\ env.req /\ ~env.uptodate THEN -EIO ELSE 0
         IN [c |-> brelse(c2, bh), ret |-> err, forced |-> force,
             dirty |-> buffer_dirty(c1, bh)]

\* variant: the buffer of the raw record is not released
minix_write_inode_no_brelse(c, ino, env) ==
    IF ~env.raw_ok
    THEN [c |-> c, ret |-> -EIO, forced |-> FALSE, dirty |-> FALSE]
    ELSE LET bh == InodeBlock(c, ino)
             c1 == IF INODE_VERSION(c) = MINIX_V1
                   THEN V1_minix_update_inode(c, ino)
                   ELSE V2_minix_update_inode(c, ino)
             force == env.sync /\ buffer_dirty(c1, bh)
             c2 == IF force THEN sync_dirty_buffer(c1, bh) ELSE c1
             err == IF force /\ env.req /\ ~env.uptodate THEN -EIO ELSE 0
         IN [c |-> c2, ret |-> err, forced |-> force,
             dirty |-> buffer_dirty(c1, bh)]

\* lines 667-689; env is what the Block I/O port does: whether the raw record
\* can be read (else update_inode returns NULL), and after a forced write
\* whether the buffer was submitted (req) and is uptodate.  Returns
\* [c, ret, forced, dirty]: whether sync_dirty_buffer ran and whether the
\* buffer was dirty at line 679
minix_write_inode(c, ino, env) ==
    IF ~env.raw_ok
    THEN [c |-> c, ret |-> -EIO, forced |-> FALSE, dirty |-> FALSE]
    ELSE LET bh == InodeBlock(c, ino)
             c1 == IF INODE_VERSION(c) = MINIX_V1
                   THEN V1_minix_update_inode(c, ino)
                   ELSE V2_minix_update_inode(c, ino)
             force == env.sync /\ buffer_dirty(c1, bh)
             c2 == IF force THEN sync_dirty_buffer(c1, bh) ELSE c1
             err == IF force /\ env.req /\ ~env.uptodate THEN -EIO ELSE 0
         IN [c |-> brelse(c2, bh), ret |-> err, forced |-> force,
             dirty |-> buffer_dirty(c1, bh)]

\* a successful minix_iget: an entry already cached is returned as it is
minix_iget(c, ino) ==
    LET c1 == iget_locked(c, ino)
    IN IF "I_NEW" \notin c1.icache[ino].i_state THEN c1
       ELSE IF INODE_VERSION(c1) = MINIX_V1 THEN V1_minix_iget(c1, ino)
       ELSE V2_minix_iget(c1, ino)

\* variant: the file type is not tested
minix_truncate_any_type(c, ino) ==
    IF INODE_VERSION(c) = MINIX_V1 THEN V1_minix_truncate(c, ino)
    ELSE V2_minix_truncate(c, ino)

\* lines 709-717
minix_truncate(c, ino) ==
    LET m == c.icache[ino].i_mode
    IN IF ~(S_ISREG(m) \/ S_ISDIR(m) \/ S_ISLNK(m)) THEN c
       ELSE IF INODE_VERSION(c) = MINIX_V1 THEN V1_minix_truncate(c, ino)
       ELSE V2_minix_truncate(c, ino)

\* variant: the inode bit is released where the zones should be
evict_truncate_frees_inode(c, ino) ==
    IF c.icache[ino].i_nlink = 0 THEN minix_free_inode(c, ino) ELSE c

\* lines 33-36: an unlinked inode gets size 0 and is truncated
evict_truncate(c, ino) ==
    IF c.icache[ino].i_nlink = 0
    THEN minix_truncate([c EXCEPT !.icache[ino].i_size = 0], ino)
    ELSE c

\* lines 37-38: invalidate_inode_buffers changes nothing of the volume,
\* clear_inode leaves the inode in the state I_FREEING | I_CLEAR
evict_clear(c, ino) ==
    [c EXCEPT !.icache[ino].i_state = {"I_FREEING", "I_CLEAR"}]

\* lines 39-40: the bit of an unlinked inode is released
evict_free(c, ino) ==
    IF c.icache[ino].i_nlink = 0 THEN minix_free_inode(c, ino) ELSE c

\* the calls minix_evict_inode makes, in the order of lines 32-40
EvictCalls(nlink) ==
    IF nlink = 0
    THEN <<"truncate_inode_pages_final", "minix_truncate",
           "invalidate_inode_buffers", "clear_inode", "minix_free_inode">>
    ELSE <<"truncate_inode_pages_final", "invalidate_inode_buffers",
           "clear_inode">>

\* variant: the size is not zeroed before the truncation
minix_evict_inode_keeps_size(c, ino) ==
    LET nlink == c.icache[ino].i_nlink
        c1 == IF nlink = 0 THEN minix_truncate(c, ino) ELSE c
        c2 == IF nlink = 0 THEN minix_free_inode(c1, ino) ELSE c1
    IN [c2 EXCEPT !.icache[ino] = NULL]

\* minix_evict_inode, after which the VFS destroys the in-memory inode
minix_evict_inode(c, ino) ==
    LET nlink == c.icache[ino].i_nlink
        c1 == IF nlink = 0
              THEN minix_truncate([c EXCEPT !.icache[ino].i_size = 0], ino)
              ELSE c
        c2 == IF nlink = 0 THEN minix_free_inode(c1, ino) ELSE c1
    IN [c2 EXCEPT !.icache[ino] = NULL]

(***************************************************************************)
(* minix_fill_super.  A run of it is decided by the image in block 1 and   *)
(* by env: the one step that fails (env.fail, with env.k the bitmap read   *)
(* that fails) and whether the device takes the V3 block size (env.bs3_ok).*)
(* Each operator returns [c, ret, label, msg, sbi]: the state, the value    *)
(* returned, the exit label taken, what the bitmap size check printed, and *)
(* the superblock info as it was when the function left.                   *)
(***************************************************************************)
FailPoints ==
    {"none", "sbi", "hblock", "sb", "map", "bitmap", "root_eio", "root_nomem",
     "dentry"}

Envs ==
    {[fail |-> f, k |-> 1, bs3_ok |-> b] : f \in FailPoints \ {"bitmap"},
                                          b \in BOOLEAN}
    \cup {[fail |-> "bitmap", k |-> k, bs3_ok |-> b] :
              k \in 1..(2 * MaxMapBlocks), b \in BOOLEAN}

\* sb_set_blocksize: the size is established on the superblock only if the
\* device takes it
sb_set_blocksize(c, size, ok) ==
    IF ok THEN [c EXCEPT !.sb.s_blocksize = size] ELSE c

kzalloc_sbi ==
    [s_sbh |-> 0, s_mount_state |-> 0, s_ninodes |-> 0, s_nzones |-> 0,
     s_imap_blocks |-> 0, s_zmap_blocks |-> 0, s_firstdatazone |-> 0,
     s_version |-> 0, s_dirsize |-> 0, s_namelen |-> 0, s_map |-> << >>]

kfree_sbi(c) ==
    IF c.kmem.sbi = 0 THEN [c EXCEPT !.kmem.bad = TRUE]
    ELSE [c EXCEPT !.sbi = NULL, !.kmem.sbi = @ - 1]

\* kfree(sbi->s_imap): the map array
kfree_map(c) ==
    IF c.kmem.map = 0 THEN [c EXCEPT !.kmem.bad = TRUE]
    ELSE [c EXCEPT !.sbi.s_map = << >>, !.kmem.map = @ - 1]

\* sbi->s_imap[i] and sbi->s_zmap[i]: both point into the one map array
s_imap(c, i) == c.sbi.s_map[i + 1]
s_zmap(c, i) == c.sbi.s_map[c.sbi.s_imap_blocks + i + 1]

\* the two release loops over the bitmap buffers
brelse_maps(c) ==
    LET c1 == brelse_all(c, [i \in 1..c.sbi.s_imap_blocks |-> s_imap(c, i - 1)])
    IN brelse_all(c1, [i \in 1..c.sbi.s_zmap_blocks |-> s_zmap(c, i - 1)])

out(c, ret, label) ==
    [c |-> kfree_sbi([c EXCEPT !.sb.s_fs_info = "NULL"]), ret |-> ret,
     label |-> label, msg |-> "", sbi |-> c.sbi]

out_bad_sb(c, ret) == out(c, ret, "out_bad_sb")

out_bad_hblock(c, ret) == out(c, ret, "out_bad_hblock")

out_release(c, ret, label) == out(brelse(c, c.sbi.s_sbh), ret, label)

out_no_fs(c, ret) == out_release(c, ret, "out_no_fs")

out_illegal_sb(c, ret) == out_release(c, ret, "out_illegal_sb")

out_no_map(c, ret) == out_release(c, -ENOMEM, "out_no_map")

\* variant: the bitmap buffers are not released
out_freemap_leak(c, ret, label) == out_release(kfree_map(c), ret, label)

out_freemap(c, ret, label) == out_release(kfree_map(brelse_maps(c)), ret, label)

out_no_bitmap(c, ret) == out_freemap(c, ret, "out_no_bitmap")

out_no_root(c, ret) == out_freemap(c, ret, "out_no_root")

\* variant: the writable mount dirties the buffer but leaves VALID on disk
fill_super_finish_keeps_valid(c, ret) ==
    LET c1 == IF ~c.sb.s_rdonly THEN mark_buffer_dirty(c, c.sbi.s_sbh) ELSE c
    IN [c |-> c1, ret |-> 0, label |-> "ok", msg |-> "", sbi |-> c1.sbi]

\* lines 332-344: a writable mount marks the volume open
fill_super_finish(c, ret) ==
    LET c1 == IF ~c.sb.s_rdonly
              THEN mark_buffer_dirty(
                       IF c.sbi.s_version # MINIX_V3
                       THEN [c EXCEPT !.disk.ms.s_state =
                                          ClearBit(@, MINIX_VALID_FS)]
                       ELSE c,
                       c.sbi.s_sbh)
              ELSE c
    IN [c |-> c1, ret |-> 0, label |-> "ok", msg |-> "", sbi |-> c1.sbi]

\* lines 320-330: the root inode and the root dentry; a failing d_make_root
\* has put the inode, which evicts it
fill_super_root(c, env, ret) ==
    IF env.fail = "root_eio" THEN out_no_root(c, -EIO)
    ELSE IF env.fail = "root_nomem" THEN out_no_root(c, -ENOMEM)
    ELSE LET c1 == minix_iget(c, MINIX_ROOT_INO)
         IN IF env.fail = "dentry"
            THEN out_no_root(minix_evict_inode(c1, MINIX_ROOT_INO), -ENOMEM)
            ELSE fill_super_finish([c1 EXCEPT !.sb.s_root = TRUE], -ENOMEM)

minix_blocks_needed(bits, blocksize) ==
    (bits + BitsPerBlock(blocksize) - 1) \div BitsPerBlock(blocksize)

\* variant: only the inode bitmap gets its bit 0
fill_super_bit0_imap_only(c) == [c EXCEPT !.imap = @ \cup {0}]

\* lines 288-289: bit 0 of both bitmaps is reserved
fill_super_bit0(c) == [c EXCEPT !.imap = @ \cup {0}, !.zmap = @ \cup {0}]

\* variant: the zone bitmap is not measured
fill_super_check_imap_only(c, env, ret) ==
    LET c1 == fill_super_bit0(c)
        sbi1 == c1.sbi
    IN IF sbi1.s_imap_blocks
            < minix_blocks_needed(sbi1.s_ninodes, c1.sb.s_blocksize)
       THEN [out_no_bitmap(c1, ret) EXCEPT !.msg = "not enough imap blocks"]
       ELSE fill_super_root(c1, env, ret)

\* lines 288-315: reserve bit 0 of both bitmaps, then refuse a volume whose
\* bitmaps are too short for its inode and zone counts
fill_super_check(c, env, ret) ==
    LET c1 == fill_super_bit0(c)
        sbi1 == c1.sbi
    IN IF sbi1.s_imap_blocks
            < minix_blocks_needed(sbi1.s_ninodes, c1.sb.s_blocksize)
       THEN [out_no_bitmap(c1, ret) EXCEPT !.msg = "not enough imap blocks"]
       ELSE IF sbi1.s_zmap_blocks
                 < minix_blocks_needed(
                       sbi1.s_nzones - sbi1.s_firstdatazone + 1,
                       c1.sb.s_blocksize)
       THEN [out_no_bitmap(c1, ret) EXCEPT !.msg = "not enough zmap blocks"]
       ELSE fill_super_root(c1, env, ret)

\* lines 267-286: allocate the map array and read the bitmap blocks, which
\* follow the superblock on the device
fill_super_maps(c, env, ret) ==
    LET total == c.sbi.s_imap_blocks + c.sbi.s_zmap_blocks
        failing == env.fail = "bitmap" /\ env.k <= total
        nread == IF failing THEN env.k - 1 ELSE total
        c1 == [c EXCEPT !.kmem.map = @ + 1,
                        !.sbi.s_map = [j \in 1..total |->
                                         IF j <= nread THEN SB_BLOCK + j ELSE 0],
                        !.b_count = [b \in DOMAIN @ |->
                                       IF b > SB_BLOCK /\ b <= SB_BLOCK + nread
                                       THEN @[b] + 1 ELSE @[b]]]
    IN IF c.sbi.s_imap_blocks = 0 \/ c.sbi.s_zmap_blocks = 0
       THEN out_illegal_sb(c, ret)
       ELSE IF env.fail = "map" THEN out_no_map(c, ret)
       ELSE IF failing THEN out_no_bitmap(c1, ret)
       ELSE fill_super_check(c1, env, ret)

\* lines 210-261: copy the geometry and pick the version by the magic
\* variant: the V3 magic at offset 24 is probed before the V1/V2 magic
fill_super_parse_v3_first(c, env, ret) ==
    LET ms == c.disk.ms
        m3s == c.disk.m3s
        c1 == [c EXCEPT !.sbi.s_sbh = SB_BLOCK,
                        !.sbi.s_mount_state = ms.s_state,
                        !.sbi.s_ninodes = ms.s_ninodes,
                        !.sbi.s_nzones = ms.s_nzones,
                        !.sbi.s_imap_blocks = ms.s_imap_blocks,
                        !.sbi.s_zmap_blocks = ms.s_zmap_blocks,
                        !.sbi.s_firstdatazone = ms.s_firstdatazone,
                        !.sb.s_magic = ms.s_magic]
        v12(version, nzones, dirsize, namelen, links) ==
            [c1 EXCEPT !.sbi.s_version = version,
                       !.sbi.s_nzones = nzones,
                       !.sbi.s_dirsize = dirsize,
                       !.sbi.s_namelen = namelen,
                       !.sb.s_max_links = links]
        v3 == sb_set_blocksize(
                  [c1 EXCEPT !.sb.s_magic = m3s.s_magic,
                             !.sbi.s_imap_blocks = m3s.s_imap_blocks,
                             !.sbi.s_zmap_blocks = m3s.s_zmap_blocks,
                             !.sbi.s_firstdatazone = m3s.s_firstdatazone,
                             !.sbi.s_ninodes = m3s.s_ninodes,
                             !.sbi.s_nzones = m3s.s_zones,
                             !.sbi.s_dirsize = 64,
                             !.sbi.s_namelen = 60,
                             !.sbi.s_version = MINIX_V3,
                             !.sbi.s_mount_state = MINIX_VALID_FS,
                             !.sb.s_max_links = MINIX2_LINK_MAX],
                  m3s.s_blocksize, env.bs3_ok)
    IN CASE ms.s_magic = MINIX_SUPER_MAGIC /\ m3s.s_magic # MINIX3_SUPER_MAGIC ->
              fill_super_maps(v12(MINIX_V1, ms.s_nzones, 16, 14, MINIX_LINK_MAX),
                              env, ret)
         [] ms.s_magic = MINIX_SUPER_MAGIC2 /\ m3s.s_magic # MINIX3_SUPER_MAGIC ->
              fill_super_maps(v12(MINIX_V1, ms.s_nzones, 32, 30, MINIX_LINK_MAX),
                              env, ret)
         [] ms.s_magic = MINIX2_SUPER_MAGIC /\ m3s.s_magic # MINIX3_SUPER_MAGIC ->
              fill_super_maps(v12(MINIX_V2, ms.s_zones, 16, 14, MINIX2_LINK_MAX),
                              env, ret)
         [] ms.s_magic = MINIX2_SUPER_MAGIC2 /\ m3s.s_magic # MINIX3_SUPER_MAGIC ->
              fill_super_maps(v12(MINIX_V2, ms.s_zones, 32, 30, MINIX2_LINK_MAX),
                              env, ret)
         [] m3s.s_magic = MINIX3_SUPER_MAGIC ->
              fill_super_maps(v3, env, ret)
         [] OTHER -> out_no_fs(c1, ret)

fill_super_parse(c, env, ret) ==
    LET ms == c.disk.ms
        m3s == c.disk.m3s
        c1 == [c EXCEPT !.sbi.s_sbh = SB_BLOCK,
                        !.sbi.s_mount_state = ms.s_state,
                        !.sbi.s_ninodes = ms.s_ninodes,
                        !.sbi.s_nzones = ms.s_nzones,
                        !.sbi.s_imap_blocks = ms.s_imap_blocks,
                        !.sbi.s_zmap_blocks = ms.s_zmap_blocks,
                        !.sbi.s_firstdatazone = ms.s_firstdatazone,
                        !.sb.s_magic = ms.s_magic]
        v12(version, nzones, dirsize, namelen, links) ==
            [c1 EXCEPT !.sbi.s_version = version,
                       !.sbi.s_nzones = nzones,
                       !.sbi.s_dirsize = dirsize,
                       !.sbi.s_namelen = namelen,
                       !.sb.s_max_links = links]
        v3 == sb_set_blocksize(
                  [c1 EXCEPT !.sb.s_magic = m3s.s_magic,
                             !.sbi.s_imap_blocks = m3s.s_imap_blocks,
                             !.sbi.s_zmap_blocks = m3s.s_zmap_blocks,
                             !.sbi.s_firstdatazone = m3s.s_firstdatazone,
                             !.sbi.s_ninodes = m3s.s_ninodes,
                             !.sbi.s_nzones = m3s.s_zones,
                             !.sbi.s_dirsize = 64,
                             !.sbi.s_namelen = 60,
                             !.sbi.s_version = MINIX_V3,
                             !.sbi.s_mount_state = MINIX_VALID_FS,
                             !.sb.s_max_links = MINIX2_LINK_MAX],
                  m3s.s_blocksize, env.bs3_ok)
    IN CASE ms.s_magic = MINIX_SUPER_MAGIC ->
              fill_super_maps(v12(MINIX_V1, ms.s_nzones, 16, 14, MINIX_LINK_MAX),
                              env, ret)
         [] ms.s_magic = MINIX_SUPER_MAGIC2 ->
              fill_super_maps(v12(MINIX_V1, ms.s_nzones, 32, 30, MINIX_LINK_MAX),
                              env, ret)
         [] ms.s_magic = MINIX2_SUPER_MAGIC ->
              fill_super_maps(v12(MINIX_V2, ms.s_zones, 16, 14, MINIX2_LINK_MAX),
                              env, ret)
         [] ms.s_magic = MINIX2_SUPER_MAGIC2 ->
              fill_super_maps(v12(MINIX_V2, ms.s_zones, 32, 30, MINIX2_LINK_MAX),
                              env, ret)
         [] ms.s_magic \notin V12Magics /\ m3s.s_magic = MINIX3_SUPER_MAGIC ->
              fill_super_maps(v3, env, ret)
         [] OTHER -> out_no_fs(c1, ret)

\* lines 187-208: allocate the superblock info, set the block size, read
\* block 1
minix_fill_super(c, env) ==
    IF env.fail = "sbi"
    THEN [c |-> c, ret |-> -ENOMEM, label |-> "return", msg |-> "",
          sbi |-> NULL]
    ELSE LET c1 == [c EXCEPT !.sbi = kzalloc_sbi, !.kmem.sbi = @ + 1,
                             !.sb.s_fs_info = "sbi"]
         IN IF env.fail = "hblock" THEN out_bad_hblock(c1, -EINVAL)
            ELSE LET c2 == sb_set_blocksize(c1, BLOCK_SIZE, TRUE)
                 IN IF env.fail = "sb" THEN out_bad_sb(c2, -EINVAL)
                    ELSE fill_super_parse(sb_bread(c2, SB_BLOCK), env, -EINVAL)

(***************************************************************************)
(* minix_put_super and minix_remount.                                      *)
(***************************************************************************)
\* variant: unmount marks the volume VALID whatever it was found to be
minix_put_super_sets_valid(c) ==
    LET c1 == IF ~c.sb.s_rdonly
              THEN mark_buffer_dirty(
                       IF c.sbi.s_version # MINIX_V3
                       THEN [c EXCEPT !.disk.ms.s_state =
                                ClearBit(c.sbi.s_mount_state, MINIX_VALID_FS)
                                + MINIX_VALID_FS]
                       ELSE c,
                       c.sbi.s_sbh)
              ELSE c
        c2 == brelse(brelse_maps(c1), c1.sbi.s_sbh)
        c3 == kfree_map(c2)
    IN kfree_sbi([c3 EXCEPT !.sb.s_fs_info = "NULL"])

\* variant: the mount state is not written back
minix_put_super_no_write(c) ==
    LET c1 == IF ~c.sb.s_rdonly THEN mark_buffer_dirty(c, c.sbi.s_sbh) ELSE c
        c2 == brelse(brelse_maps(c1), c1.sbi.s_sbh)
        c3 == kfree_map(c2)
    IN kfree_sbi([c3 EXCEPT !.sb.s_fs_info = "NULL"])

minix_put_super(c) ==
    LET c1 == IF ~c.sb.s_rdonly
              THEN mark_buffer_dirty(
                       IF c.sbi.s_version # MINIX_V3
                       THEN [c EXCEPT !.disk.ms.s_state = c.sbi.s_mount_state]
                       ELSE c,
                       c.sbi.s_sbh)
              ELSE c
        c2 == brelse(brelse_maps(c1), c1.sbi.s_sbh)
        c3 == kfree_map(c2)
    IN kfree_sbi([c3 EXCEPT !.sb.s_fs_info = "NULL"])

\* variant: going read-only always writes the mount state back
remount_ro_always_writes(c0) ==
    mark_buffer_dirty(
        IF c0.sbi.s_version # MINIX_V3
        THEN [c0 EXCEPT !.disk.ms.s_state = c0.sbi.s_mount_state]
        ELSE c0,
        c0.sbi.s_sbh)

\* variant: going read-only dirties the buffer without writing the state
remount_ro_no_write(c0) ==
    IF HasBit(c0.disk.ms.s_state, MINIX_VALID_FS)
       \/ ~HasBit(c0.sbi.s_mount_state, MINIX_VALID_FS)
    THEN c0
    ELSE mark_buffer_dirty(c0, c0.sbi.s_sbh)

\* variant: the mount state is written back whatever the format
remount_ro_any_version(c0) ==
    IF HasBit(c0.disk.ms.s_state, MINIX_VALID_FS)
       \/ ~HasBit(c0.sbi.s_mount_state, MINIX_VALID_FS)
    THEN c0
    ELSE mark_buffer_dirty(
             [c0 EXCEPT !.disk.ms.s_state = c0.sbi.s_mount_state],
             c0.sbi.s_sbh)

\* lines 143-150: the volume goes read-only
remount_ro(c0) ==
    IF HasBit(c0.disk.ms.s_state, MINIX_VALID_FS)
       \/ ~HasBit(c0.sbi.s_mount_state, MINIX_VALID_FS)
    THEN c0
    ELSE mark_buffer_dirty(
             IF c0.sbi.s_version # MINIX_V3
             THEN [c0 EXCEPT !.disk.ms.s_state = c0.sbi.s_mount_state]
             ELSE c0,
             c0.sbi.s_sbh)

\* variant: going writable clears the whole on-disk state word
remount_rw_clears_all(c0) ==
    mark_buffer_dirty(
        IF c0.sbi.s_version # MINIX_V3
        THEN [c0 EXCEPT !.sbi.s_mount_state = c0.disk.ms.s_state,
                        !.disk.ms.s_state = 0]
        ELSE [c0 EXCEPT !.sbi.s_mount_state = MINIX_VALID_FS],
        c0.sbi.s_sbh)

\* lines 151-167: the volume goes writable; the two warnings change nothing
remount_rw(c0) ==
    mark_buffer_dirty(
        IF c0.sbi.s_version # MINIX_V3
        THEN [c0 EXCEPT !.sbi.s_mount_state = c0.disk.ms.s_state,
                        !.disk.ms.s_state = ClearBit(@, MINIX_VALID_FS)]
        ELSE [c0 EXCEPT !.sbi.s_mount_state = MINIX_VALID_FS],
        c0.sbi.s_sbh)

\* variant: the requested mode is not compared with the mode the volume has
minix_remount_no_mode_test(c, rdonly) ==
    LET c0 == sync_filesystem(c)
        c1 == IF rdonly THEN remount_ro(c0) ELSE remount_rw(c0)
    IN [c |-> c1, ret |-> 0, synced |-> c0]

\* returns [c, ret, synced]: synced is the state right after the sync
minix_remount(c, rdonly) ==
    LET c0 == sync_filesystem(c)
        c1 == IF rdonly = c0.sb.s_rdonly THEN c0
              ELSE IF rdonly THEN remount_ro(c0)
              ELSE remount_rw(c0)
    IN [c |-> c1, ret |-> 0, synced |-> c0]

(***************************************************************************)
(* The operations, as the VFS drives them.                                 *)
(***************************************************************************)
Mounted == sb.s_root

Tasks == 1..MaxTasks

Idle == [pc |-> "idle", ino |-> MINIX_ROOT_INO, ret |-> 0]

NoTasks == [of |-> [t \in Tasks |-> Idle], reads |-> [i \in Inos |-> 0]]

\* a caller is inside minix_iget of ino, or holds the inode it returned
InUse(ino) == \E t \in Tasks : tasks.of[t].pc # "idle" /\ tasks.of[t].ino = ino

\* what an operation found when it was called
Before(c) ==
    [rdonly |-> c.sb.s_rdonly, s_state |-> c.disk.ms.s_state,
     mount_state |-> IF c.sbi = NULL THEN 0 ELSE c.sbi.s_mount_state,
     version |-> IF c.sbi = NULL THEN 0 ELSE c.sbi.s_version,
     dirty |-> SB_BLOCK \in c.b_dirty]

\* the geometry a run of minix_fill_super worked with
Geo(i, blocksize) ==
    IF i = NULL THEN NULL
    ELSE [s_ninodes |-> i.s_ninodes, s_nzones |-> i.s_nzones,
          s_imap_blocks |-> i.s_imap_blocks, s_zmap_blocks |-> i.s_zmap_blocks,
          s_firstdatazone |-> i.s_firstdatazone, s_version |-> i.s_version,
          s_blocksize |-> blocksize]

\* mount_bdev: a new superblock with the mount's flags, filled by
\* minix_fill_super; a superblock that could not be filled is destroyed
minix_mount ==
    /\ ~Mounted
    /\ \E rdonly \in BOOLEAN, env \in Envs :
        \* only a V3 volume asks the device for another block size
        /\ env.bs3_ok \/ disk.m3s.s_magic = MINIX3_SUPER_MAGIC
        /\ \E c0 \in {[Cur EXCEPT !.sb = [NoSb EXCEPT !.s_rdonly = rdonly]]} :
           \E r \in {minix_fill_super(c0, env)} :
              /\ Commit(IF r.ret = 0 THEN r.c ELSE [r.c EXCEPT !.sb = NoSb])
              /\ last' = [op |-> "fill_super", ret |-> r.ret,
                          label |-> r.label, msg |-> r.msg,
                          rdonly |-> r.ret = 0 /\ rdonly,
                          s_state |-> c0.disk.ms.s_state,
                          bit0 |-> 0 \in c0.imap \/ 0 \in c0.zmap,
                          fs_info |-> r.c.sb.s_fs_info,
                          geo |-> Geo(r.sbi, r.c.sb.s_blocksize)]

\* do_remount_sb: the flags are taken over when remount_fs returned 0
remount_fs ==
    /\ Mounted
    /\ \E rdonly \in BOOLEAN :
        \E r \in {minix_remount(Cur, rdonly)} :
           /\ Commit(IF r.ret = 0 THEN [r.c EXCEPT !.sb.s_rdonly = rdonly]
                     ELSE r.c)
           /\ last' = [op |-> "remount", ret |-> r.ret, rdonly |-> rdonly,
                       before |-> Before(Cur), synced |-> Before(r.synced),
                       \* the on-disk state before the remount that this
                       \* one follows at once, if that one went ro -> rw
                       after_rw |-> last.op = "remount" /\ last.before.rdonly
                                    /\ ~last.rdonly,
                       prior_state |-> IF last.op = "remount"
                                       THEN last.before.s_state ELSE 0]

RECURSIVE evict_inodes(_, _)
evict_inodes(c, inos) ==
    IF inos = {} THEN c
    ELSE LET ino == CHOOSE i \in inos : TRUE
         IN evict_inodes(IF c.icache[ino] = NULL THEN c
                         ELSE minix_evict_inode(c, ino), inos \ {ino})

\* kill_block_super: every cached inode is evicted, then put_super runs and
\* the superblock is destroyed
kill_block_super ==
    /\ Mounted
    /\ \A t \in Tasks : tasks.of[t].pc = "idle"
    /\ \E c1 \in {evict_inodes(Cur, Inos)} :
       \E c2 \in {minix_put_super(c1)} :
          /\ CommitVolume([c2 EXCEPT !.sb = NoSb])
          /\ tasks' = NoTasks
          /\ last' = [op |-> "put_super", ret |-> 0, before |-> Before(c1)]

\* minix_iget of an inode number, start to end; reading the raw record may
\* fail
iget ==
    /\ Mounted
    /\ \E ino \in Inos, ok \in BOOLEAN :
        /\ ~InUse(ino)
        /\ ok \/ icache[ino] = NULL
        /\ Commit(IF ok THEN minix_iget(Cur, ino) ELSE Cur)
        /\ last' = [op |-> "iget", ret |-> IF ok THEN 0 ELSE -EIO, ino |-> ino]

\* the last reference to a cached inode is dropped and the VFS evicts it
\* (the root inode is held by the root dentry until unmount)
evict ==
    /\ Mounted
    /\ \E ino \in Inos \ {MINIX_ROOT_INO} :
        /\ icache[ino] # NULL
        /\ ~InUse(ino)
        /\ CommitVolume(minix_evict_inode(Cur, ino))
        /\ tasks' = [tasks EXCEPT !.reads[ino] = 0]
        /\ last' = [op |-> "evict", ret |-> 0, ino |-> ino,
                    inode |-> icache[ino],
                    reach |-> ReachAll(icache[ino].i_data, indir)]

(***************************************************************************)
(* minix_iget step by step, for callers that run at the same time.  A      *)
(* caller is at "lookup" inside iget_locked, at "new" with the fresh entry *)
(* (line 594), at "fields" with the raw record read, at "zones" with the   *)
(* fields filled, at "unlock" before unlock_new_inode, at "done" with the  *)
(* value minix_iget returned.                                              *)
(***************************************************************************)
SetTask(t, pc, ret) == [tasks EXCEPT !.of[t].pc = pc, !.of[t].ret = ret]

TaskStep == [op |-> "task", ret |-> 0]

task_call ==
    /\ Mounted
    /\ \E t \in Tasks, ino \in Inos :
        /\ tasks.of[t].pc = "idle"
        /\ tasks' = [tasks EXCEPT !.of[t] =
                        [pc |-> "lookup", ino |-> ino, ret |-> 0]]
        /\ CommitVolume(Cur)
        /\ last' = TaskStep

\* lines 588-592: iget_locked sleeps while the entry it finds has I_NEW set;
\* it makes the entry when there is none, or fails to allocate one
task_lookup ==
    \E t \in Tasks, ok \in BOOLEAN :
        LET ino == tasks.of[t].ino
            entry == icache[ino]
            c1 == iget_locked(Cur, ino)
        IN /\ tasks.of[t].pc = "lookup"
           /\ IF entry = NULL THEN TRUE ELSE "I_NEW" \notin entry.i_state
           /\ IF ok THEN TRUE ELSE entry = NULL
           /\ IF ~ok
              THEN CommitVolume(Cur) /\ tasks' = SetTask(t, "done", -ENOMEM)
              ELSE /\ CommitVolume(c1)
                   /\ tasks' = SetTask(t, IF "I_NEW" \in c1.icache[ino].i_state
                                          THEN "new" ELSE "done", 0)
           /\ last' = TaskStep

\* lines 519-523, 555-559: the raw record is read, or iget_failed
task_read ==
    \E t \in Tasks, ok \in BOOLEAN :
        LET ino == tasks.of[t].ino
        IN /\ tasks.of[t].pc = "new"
           /\ IF ok
              THEN /\ CommitVolume(minix_raw_inode(Cur, ino))
                   /\ tasks' = [SetTask(t, "fields", 0)
                                    EXCEPT !.reads[ino] = @ + 1]
              ELSE /\ CommitVolume(iget_failed(Cur, ino))
                   /\ tasks' = [SetTask(t, "done", -EIO)
                                    EXCEPT !.reads[ino] = 0]
           /\ last' = TaskStep

task_fields ==
    \E t \in Tasks :
        LET ino == tasks.of[t].ino
        IN /\ tasks.of[t].pc = "fields"
           /\ CommitVolume(IF INODE_VERSION(Cur) = MINIX_V1
                           THEN V1_iget_fields(Cur, ino)
                           ELSE V2_iget_fields(Cur, ino))
           /\ tasks' = SetTask(t, "zones", 0)
           /\ last' = TaskStep

task_zones ==
    \E t \in Tasks :
        LET ino == tasks.of[t].ino
        IN /\ tasks.of[t].pc = "zones"
           /\ CommitVolume(IF INODE_VERSION(Cur) = MINIX_V1
                           THEN V1_iget_zones(Cur, ino)
                           ELSE V2_iget_zones(Cur, ino))
           /\ tasks' = SetTask(t, "unlock", 0)
           /\ last' = TaskStep

\* lines 541-542, 576-577
task_unlock ==
    \E t \in Tasks :
        /\ tasks.of[t].pc = "unlock"
        /\ CommitVolume(unlock_new_inode(Cur, tasks.of[t].ino))
        /\ tasks' = SetTask(t, "done", 0)
        /\ last' = TaskStep

\* the caller is done with what minix_iget returned
task_return ==
    \E t \in Tasks :
        /\ tasks.of[t].pc = "done"
        /\ tasks' = [tasks EXCEPT !.of[t] = Idle]
        /\ CommitVolume(Cur)
        /\ last' = TaskStep

NextIget ==
    \/ minix_mount \/ kill_block_super \/ evict
    \/ task_call \/ task_lookup \/ task_read \/ task_fields \/ task_zones
    \/ task_unlock \/ task_return

\* minix_count_free_inodes, minix_count_free_blocks: the clear bits among
\* the first numbits bits of a bitmap, read from the bitmap buffers the
\* volume holds
count_free(map, numbits) == Cardinality({b \in 0..(numbits - 1) : b \notin map})

\* lines 392-409; s_log_zone_size is 0 (never set after kzalloc)
minix_statfs(c) ==
    [f_type |-> c.sb.s_magic,
     f_bsize |-> c.sb.s_blocksize,
     f_blocks |-> c.sbi.s_nzones - c.sbi.s_firstdatazone,
     f_bfree |-> count_free(c.zmap, c.sbi.s_nzones - c.sbi.s_firstdatazone + 1),
     f_bavail |-> count_free(c.zmap, c.sbi.s_nzones - c.sbi.s_firstdatazone + 1),
     f_files |-> c.sbi.s_ninodes,
     f_ffree |-> count_free(c.imap, c.sbi.s_ninodes + 1),
     f_namelen |-> c.sbi.s_namelen]

statfs ==
    /\ Mounted
    /\ Commit(Cur)
    /\ last' = [op |-> "statfs", ret |-> 0, buf |-> minix_statfs(Cur)]

\* minix_evict_inode step by step.  One inode is evicted at a time; last
\* keeps the volume as it was at the call (c0) and the calls made so far
EvictStep(t, pc, calls) ==
    /\ tasks' = [tasks EXCEPT !.of[t].pc = pc]
    /\ last' = [last EXCEPT !.done = @ \o calls]

evict_call ==
    /\ Mounted
    /\ \A t \in Tasks : tasks.of[t].pc = "idle"
    /\ \E t \in Tasks, ino \in Inos \ {MINIX_ROOT_INO} :
        /\ icache[ino] # NULL
        /\ tasks' = [tasks EXCEPT !.of[t] =
                        [pc |-> "evict_pages", ino |-> ino, ret |-> 0]]
        /\ CommitVolume(Cur)
        /\ last' = [op |-> "evict_step", ret |-> 0, ino |-> ino,
                    done |-> << >>, c0 |-> Cur]

\* line 32: the page cache is not part of the volume
evict_step_pages ==
    \E t \in Tasks :
        /\ tasks.of[t].pc = "evict_pages"
        /\ CommitVolume(Cur)
        /\ EvictStep(t, "evict_truncate", <<"truncate_inode_pages_final">>)

evict_step_truncate ==
    \E t \in Tasks :
        /\ tasks.of[t].pc = "evict_truncate"
        /\ CommitVolume(evict_truncate(Cur, tasks.of[t].ino))
        /\ EvictStep(t, "evict_clear",
                     IF icache[tasks.of[t].ino].i_nlink = 0
                     THEN <<"minix_truncate">> ELSE << >>)

evict_step_clear ==
    \E t \in Tasks :
        /\ tasks.of[t].pc = "evict_clear"
        /\ CommitVolume(evict_clear(Cur, tasks.of[t].ino))
        /\ EvictStep(t, "evict_free",
                     <<"invalidate_inode_buffers", "clear_inode">>)

\* lines 39-40, and the VFS destroys the inode when minix_evict_inode returns
evict_step_free ==
    \E t \in Tasks :
        /\ tasks.of[t].pc = "evict_free"
        /\ \E ino \in {tasks.of[t].ino} :
            /\ CommitVolume([evict_free(Cur, ino) EXCEPT !.icache[ino] = NULL])
            /\ tasks' = [tasks EXCEPT !.of[t] = Idle, !.reads[ino] = 0]
            /\ last' = [last EXCEPT !.done =
                           @ \o (IF icache[ino].i_nlink = 0
                                 THEN <<"minix_free_inode">> ELSE << >>),
                                    !.ret = 1]

\* iget while no eviction is under way
evict_iget == (\A t \in Tasks : tasks.of[t].pc = "idle") /\ iget

NextEvict ==
    \/ minix_mount \/ kill_block_super \/ evict_iget \/ evict_call
    \/ evict_step_pages \/ evict_step_truncate \/ evict_step_clear
    \/ evict_step_free

\* truncation of a cached inode of a writable volume: the caller has set
\* the new size, no larger than the old one, before it calls minix_truncate
truncate_inode ==
    /\ Mounted /\ ~sb.s_rdonly
    /\ \E ino \in Inos, size \in {0, BLOCK_SIZE} :
        /\ icache[ino] # NULL
        /\ size <= icache[ino].i_size
        /\ \E c0 \in {[Cur EXCEPT !.icache[ino].i_size = size]} :
            /\ Commit(minix_truncate(c0, ino))
            /\ last' = [op |-> "truncate", ret |-> 0, ino |-> ino, c0 |-> c0]

\* write-back of a cached inode of a writable volume
write_inode ==
    /\ Mounted /\ ~sb.s_rdonly
    /\ \E ino \in Inos, env \in WriteEnvs :
        /\ icache[ino] # NULL
        /\ \E r \in {minix_write_inode(Cur, ino, env)} :
            /\ Commit(r.c)
            /\ last' = [op |-> "write_inode", ret |-> r.ret, ino |-> ino,
                        env |-> env, forced |-> r.forced, dirty |-> r.dirty,
                        raw |-> itable[ino], block |-> InodeBlock(Cur, ino)]

Next == minix_mount \/ remount_fs \/ kill_block_super \/ iget \/ evict

NoOp == [op |-> "none", ret |-> 0]

(***************************************************************************)
(* The module: the inode pool minix_inode_cachep, the registration of the  *)
(* filesystem type, and the inodes allocated from the pool.  An object is  *)
(* "free", "live" (allocated) or "rcu" (handed to call_rcu, callback not   *)
(* yet run); readers holds the objects inside an RCU read-side section.    *)
(* bad collects what the slab allocator leaves undefined.                  *)
(***************************************************************************)
Objs == 1..MaxObjs

Unloaded ==
    [state |-> "unloaded", cachep |-> "NULL", registered |-> FALSE,
     obj |-> [o \in Objs |-> "free"], readers |-> {}, bad |-> {}]

\* lines 93-103
init_inodecache(m, ok) ==
    IF ok THEN [m |-> [m EXCEPT !.cachep = "live"], ret |-> 0]
    ELSE [m |-> [m EXCEPT !.cachep = "NULL"], ret |-> -ENOMEM]

\* lines 75-79: kmem_cache_free on the pool the global names
minix_i_callback(m, o) ==
    [m EXCEPT !.obj[o] = "free",
              !.bad = IF m.cachep = "live" THEN @ ELSE @ \cup {"free_destroyed"}]

\* lines 81-84
minix_destroy_inode(m, o) == [m EXCEPT !.obj[o] = "rcu"]

\* rcu_barrier returns when every callback queued by call_rcu has run
RECURSIVE rcu_barrier(_, _)
rcu_barrier(m, queued) ==
    IF queued = {} THEN m
    ELSE LET o == CHOOSE x \in queued : TRUE
         IN rcu_barrier(minix_i_callback(m, o), queued \ {o})

\* kmem_cache_destroy: NULL is ignored, a pool with objects outstanding is
\* reported and kept, a pool already destroyed is undefined
kmem_cache_destroy(m) ==
    CASE m.cachep = "NULL" -> m
      [] m.cachep = "destroyed" -> [m EXCEPT !.bad = @ \cup {"destroy_destroyed"}]
      [] OTHER -> IF \E o \in Objs : m.obj[o] # "free"
                  THEN [m EXCEPT !.bad = @ \cup {"destroy_busy"}]
                  ELSE [m EXCEPT !.cachep = "destroyed"]

\* lines 105-113
destroy_inodecache(m) ==
    kmem_cache_destroy(rcu_barrier(m, {o \in Objs : m.obj[o] = "rcu"}))

\* register_filesystem: fails when the name is taken
register_filesystem(m, ok) ==
    IF ok THEN [m |-> [m EXCEPT !.registered = TRUE], ret |-> 0]
    ELSE [m |-> m, ret |-> -EBUSY]

\* lines 756-768: after register_filesystem the goto out is taken whatever
\* err is, so destroy_inodecache always runs; the module stays loaded when
\* the return is 0
init_minix_fs(m, env) ==
    LET r1 == init_inodecache(m, env.cache_ok)
    IN IF r1.ret # 0 THEN r1
       ELSE LET r2 == register_filesystem(r1.m, env.reg_ok)
                m3 == destroy_inodecache(r2.m)
            IN [m |-> [m3 EXCEPT !.state = IF r2.ret = 0 THEN "loaded"
                                            ELSE "unloaded"],
                ret |-> r2.ret]

\* lines 770-774
exit_minix_fs(m) ==
    [destroy_inodecache([m EXCEPT !.registered = FALSE])
        EXCEPT !.state = "unloaded"]

\* lines 65-73: kmem_cache_alloc from the pool the global names.  From a
\* live pool it gives an object or NULL; from a destroyed pool it is
\* undefined: an object, NULL, or a fault
minix_alloc_inode(m, o, outcome) ==
    LET m1 == IF m.cachep = "live" THEN m
              ELSE [m EXCEPT !.bad = @ \cup {"alloc_destroyed"}]
    IN CASE outcome = "object" -> [m1 EXCEPT !.obj[o] = "live"]
         [] outcome = "NULL" -> m1
         [] OTHER -> [m1 EXCEPT !.state = "oops"]

AllocOutcomes(m) ==
    IF m.cachep = "live" THEN {"object", "NULL"} ELSE {"object", "NULL", "oops"}

\* the module as init_minix_fs leaves it when it returns 0
Loaded == init_minix_fs(Unloaded, [cache_ok |-> TRUE, reg_ok |-> TRUE]).m

UnchangedVolume ==
    UNCHANGED <<disk, imap, zmap, itable, indir, b_count, b_dirty, b_warn, sb,
                sbi, kmem, icache, tasks, sysfs>>

module_init ==
    /\ mod.state = "unloaded"
    /\ \E env \in [cache_ok : BOOLEAN, reg_ok : BOOLEAN] :
        \E r \in {init_minix_fs(mod, env)} :
           /\ mod' = r.m
           /\ last' = [op |-> "init_minix_fs", ret |-> r.ret]
    /\ UnchangedVolume

\* the module is removed when no mount uses it; rcu_barrier waits for the
\* readers that the queued callbacks wait for
module_exit ==
    /\ mod.state = "loaded"
    /\ \A o \in Objs : mod.obj[o] # "live" /\ o \notin mod.readers
    /\ mod' = exit_minix_fs(mod)
    /\ last' = [op |-> "exit_minix_fs", ret |-> 0]
    /\ UnchangedVolume

\* the VFS makes an inode for a mounted volume of the registered type
alloc_inode ==
    /\ mod.state = "loaded" /\ mod.registered
    /\ \E o \in Objs, outcome \in AllocOutcomes(mod) :
        /\ mod.obj[o] = "free"
        /\ mod' = minix_alloc_inode(mod, o, outcome)
        /\ last' = [op |-> "alloc_inode", ret |-> IF outcome = "object" THEN o ELSE 0]
    /\ UnchangedVolume

\* the VFS drops an inode: it can no longer be found, readers that found it
\* before may still be inside their read-side section
destroy_inode ==
    /\ mod.state = "loaded"
    /\ \E o \in Objs :
        /\ mod.obj[o] = "live"
        /\ mod' = minix_destroy_inode(mod, o)
        /\ last' = [op |-> "destroy_inode", ret |-> o]
    /\ UnchangedVolume

rcu_read_lock ==
    /\ mod.state = "loaded"
    /\ \E o \in Objs \ mod.readers :
        /\ mod.obj[o] = "live"
        /\ mod' = [mod EXCEPT !.readers = @ \cup {o}]
        /\ last' = [op |-> "rcu_read_lock", ret |-> o]
    /\ UnchangedVolume

rcu_read_unlock ==
    /\ \E o \in mod.readers :
        /\ mod' = [mod EXCEPT !.readers = @ \ {o}]
        /\ last' = [op |-> "rcu_read_unlock", ret |-> o]
    /\ UnchangedVolume

\* a grace period has passed for o: no reader that could find it is left
rcu_callback ==
    /\ \E o \in Objs \ mod.readers :
        /\ mod.obj[o] = "rcu"
        /\ mod' = minix_i_callback(mod, o)
        /\ last' = [op |-> "minix_i_callback", ret |-> o]
    /\ UnchangedVolume

NextModule ==
    \/ module_init \/ module_exit \/ alloc_inode \/ destroy_inode
    \/ rcu_read_lock \/ rcu_read_unlock \/ rcu_callback

(***************************************************************************)
(* sysfs and lshfs (fs/sysfs/mount.c).  root is the state of each kernfs   *)
(* root, registered the filesystem types registered, refs the references   *)
(* on each network namespace taken through kobj_ns_grab_current and not    *)
(* yet dropped, supers the number of mounts that share the superblock of a *)
(* filesystem type and namespace (0: no superblock), visible its           *)
(* SB_I_USERNS_VISIBLE flag, bad a drop of a reference nobody held.        *)
(***************************************************************************)
FsNames == {"sysfs", "lshfs"}

Nss == 1..MaxNs

NoSysfs ==
    [state |-> "boot",
     root |-> [f \in FsNames |-> "none"],
     registered |-> {},
     refs |-> [n \in Nss |-> 0],
     supers |-> [f \in FsNames |-> [n \in Nss |-> 0]],
     visible |-> [f \in FsNames |-> [n \in Nss |-> FALSE]],
     bad |-> FALSE]

kobj_ns_grab_current(s, ns) == [s EXCEPT !.refs[ns] = @ + 1]

kobj_ns_drop(s, ns) ==
    IF s.refs[ns] = 0 THEN [s EXCEPT !.bad = TRUE]
    ELSE [s EXCEPT !.refs[ns] = @ - 1]

\* kernfs_kill_sb: the superblock is gone
kernfs_kill_sb(s, fs, ns) ==
    [s EXCEPT !.supers[fs][ns] = 0, !.visible[fs][ns] = FALSE]

\* lines 79-85
sysfs_kill_sb(s, ns) == kobj_ns_drop(kernfs_kill_sb(s, "sysfs", ns), ns)

\* lines 87-93
lshfs_kill_sb(s, ns) == kobj_ns_drop(kernfs_kill_sb(s, "lshfs", ns), ns)

\* lines 95-107: the kill_sb of each filesystem type
kill_sb(s, fs, ns) ==
    IF fs = "sysfs" THEN sysfs_kill_sb(s, ns) ELSE lshfs_kill_sb(s, ns)

\* kernfs_mount_ns: sget fails, or finds the superblock of this root and
\* namespace and shares it, or makes a new one; a new one that cannot be
\* filled is deactivated at once, which calls the kill_sb of its type.
\* new_sb is what the caller's flag reads afterwards
kernfs_mount_ns(s, fs, ns, outcome) ==
    IF outcome = "sget_fail" THEN [s |-> s, new_sb |-> FALSE, err |-> TRUE]
    ELSE IF s.supers[fs][ns] > 0
    THEN [s |-> [s EXCEPT !.supers[fs][ns] = @ + 1], new_sb |-> FALSE,
          err |-> FALSE]
    ELSE IF outcome = "fill_fail"
    THEN [s |-> kill_sb([s EXCEPT !.supers[fs][ns] = 1], fs, ns),
          new_sb |-> TRUE, err |-> TRUE]
    ELSE [s |-> [s EXCEPT !.supers[fs][ns] = 1], new_sb |-> TRUE,
          err |-> FALSE]

MountEnvs ==
    [kern : BOOLEAN, may : BOOLEAN, outcome : {"ok", "sget_fail", "fill_fail"}]

\* variant: the reference is dropped whether or not a superblock was made
sysfs_mount_always_drops(s, ns, env) ==
    IF ~env.kern /\ ~env.may
    THEN [s |-> s, ret |-> -EPERM, new_sb |-> FALSE]
    ELSE LET r == kernfs_mount_ns(kobj_ns_grab_current(s, ns), "sysfs", ns,
                                  env.outcome)
             s1 == kobj_ns_drop(r.s, ns)
         IN [s |-> s1, ret |-> IF r.err THEN -ENOMEM ELSE 0,
             new_sb |-> r.new_sb]

\* lines 29-50; env: SB_KERNMOUNT, kobj_ns_current_may_mount, and what
\* kernfs_mount_ns meets
sysfs_mount(s, ns, env) ==
    IF ~env.kern /\ ~env.may
    THEN [s |-> s, ret |-> -EPERM, new_sb |-> FALSE]
    ELSE LET r == kernfs_mount_ns(kobj_ns_grab_current(s, ns), "sysfs", ns,
                                  env.outcome)
             s1 == IF ~r.new_sb THEN kobj_ns_drop(r.s, ns)
                   ELSE IF ~r.err
                   THEN [r.s EXCEPT !.visible["sysfs"][ns] = TRUE]
                   ELSE r.s
         IN [s |-> s1, ret |-> IF r.err THEN -ENOMEM ELSE 0,
             new_sb |-> r.new_sb]

\* lines 56-77
lshfs_mount(s, ns, env) ==
    IF ~env.kern /\ ~env.may
    THEN [s |-> s, ret |-> -EPERM, new_sb |-> FALSE]
    ELSE LET r == kernfs_mount_ns(kobj_ns_grab_current(s, ns), "lshfs", ns,
                                  env.outcome)
             s1 == IF ~r.new_sb THEN kobj_ns_drop(r.s, ns)
                   ELSE IF ~r.err
                   THEN [r.s EXCEPT !.visible["lshfs"][ns] = TRUE]
                   ELSE r.s
         IN [s |-> s1, ret |-> IF r.err THEN -ENOMEM ELSE 0,
             new_sb |-> r.new_sb]

\* lines 111-147; fail names the call that fails, if any
sysfs_init(s, fail) ==
    IF fail = "sysfs_root" THEN [s |-> s, ret |-> -ENOMEM]
    ELSE LET s1 == [s EXCEPT !.root["sysfs"] = "live"]
         IN IF fail = "lshfs_root" THEN [s |-> s1, ret |-> -ENOMEM]
            ELSE LET s2 == [s1 EXCEPT !.root["lshfs"] = "live"]
                 IN IF fail = "sysfs_type"
                    THEN [s |-> [s2 EXCEPT !.root["sysfs"] = "destroyed"],
                          ret |-> -EBUSY]
                    ELSE LET s3 == [s2 EXCEPT !.registered = @ \cup {"sysfs"}]
                         IN IF fail = "lshfs_type"
                            THEN [s |-> [s3 EXCEPT !.root["lshfs"] = "destroyed"],
                                  ret |-> -EBUSY]
                            ELSE [s |-> [s3 EXCEPT !.registered =
                                                      @ \cup {"lshfs"}],
                                  ret |-> 0]

InitFailures == {"none", "sysfs_root", "lshfs_root", "sysfs_type", "lshfs_type"}

\* sysfs as sysfs_init leaves it when every call succeeds
SysfsReady ==
    [sysfs_init(NoSysfs, "none").s EXCEPT !.state = "up"]

UnchangedMinix ==
    UNCHANGED <<disk, imap, zmap, itable, indir, b_count, b_dirty, b_warn, sb,
                sbi, kmem, icache, tasks, mod>>

\* sysfs_init runs once when the kernel starts; the kernel goes on when it
\* fails
sysfs_boot ==
    /\ sysfs.state = "boot"
    /\ \E fail \in InitFailures :
        \E r \in {sysfs_init(sysfs, fail)} :
           /\ sysfs' = [r.s EXCEPT !.state = "up"]
           /\ last' = [op |-> "sysfs_init", ret |-> r.ret, fail |-> fail]
    /\ UnchangedMinix

\* mount of a registered type from namespace ns
sysfs_do_mount ==
    /\ sysfs.state = "up"
    /\ \E fs \in sysfs.registered, ns \in Nss, env \in MountEnvs :
        /\ sysfs.supers[fs][ns] < MaxMounts
        /\ \E r \in {IF fs = "sysfs" THEN sysfs_mount(sysfs, ns, env)
                     ELSE lshfs_mount(sysfs, ns, env)} :
            /\ sysfs' = r.s
            /\ last' = [op |-> "sysfs_mount", ret |-> r.ret, fs |-> fs,
                        ns |-> ns, permitted |-> env.kern \/ env.may,
                        new_sb |-> r.new_sb, before |-> sysfs]
    /\ UnchangedMinix

\* deactivate_super: the last mount that goes calls the kill_sb of the type
sysfs_do_umount ==
    /\ \E fs \in FsNames, ns \in Nss :
        /\ sysfs.supers[fs][ns] > 0
        /\ sysfs' = IF sysfs.supers[fs][ns] = 1 THEN kill_sb(sysfs, fs, ns)
                    ELSE [sysfs EXCEPT !.supers[fs][ns] = @ - 1]
        /\ last' = [op |-> "sysfs_umount", ret |-> 0, fs |-> fs, ns |-> ns,
                    killed |-> sysfs.supers[fs][ns] = 1]
    /\ UnchangedMinix

NextSysfs == sysfs_boot \/ sysfs_do_mount \/ sysfs_do_umount

InitMinix ==
    /\ indir = Indir0
    /\ b_count = [b \in Blocks |-> 0]
    /\ b_dirty = {}
    /\ b_warn = FALSE
    /\ sb = NoSb
    /\ sbi = NULL
    /\ kmem = [sbi |-> 0, map |-> 0, bad |-> FALSE]
    /\ icache = [i \in Inos |-> NULL]
    /\ tasks = NoTasks
    /\ last = NoOp

\* sysfs_init ran when the kernel started
InitVolume == InitMinix /\ sysfs = SysfsReady

\* a volume is mounted while the module is loaded
InitCommon == InitVolume /\ mod = Loaded

\* bits of the bitmaps in use on the device, without the reserved bit 0
InodeBits == Inos
ZoneBits == {z - 5 + 1 : z \in Zones}

PlainTable == [i \in Inos |-> IF i = MINIX_ROOT_INO THEN RootRaw ELSE PlainRaw]

\* any superblock image, over a plain inode table
Init ==
    /\ disk \in Images
    /\ imap = InodeBits
    /\ zmap = ZoneBits
    /\ itable = PlainTable
    /\ InitCommon

Spec == Init /\ [][Next]_vars

\* well-formed small volumes of each version, over any second inode
InodeImages ==
    {ImageV12(MINIX_SUPER_MAGIC, SmallGeometry, MINIX_VALID_FS, 0),
     ImageV12(MINIX2_SUPER_MAGIC, SmallGeometry, MINIX_VALID_FS, 0),
     ImageV3(SmallGeometry, 0, BLOCK_SIZE)}

InitInode ==
    /\ disk \in InodeImages
    /\ \E bit0 \in SUBSET {0} :
         /\ imap = InodeBits \cup bit0
         /\ zmap = ZoneBits \cup bit0
    /\ \E raw \in RawInodes :
         itable = [PlainTable EXCEPT ![MINIX_ROOT_INO + 1] = raw]
    /\ InitCommon

SpecInode == InitInode /\ [][Next]_vars

InitModule ==
    /\ disk \in InodeImages
    /\ imap = InodeBits
    /\ zmap = ZoneBits
    /\ itable = PlainTable
    /\ InitVolume
    /\ mod = Unloaded

\* no minix volume is touched: one image stands for the block device
InitSysfs ==
    /\ disk = ImageV12(MINIX_SUPER_MAGIC, SmallGeometry, MINIX_VALID_FS, 0)
    /\ imap = InodeBits
    /\ zmap = ZoneBits
    /\ itable = PlainTable
    /\ InitMinix
    /\ mod = Loaded
    /\ sysfs = NoSysfs

\* the start of sysfs and the mounts of sysfs and lshfs
SpecSysfs == InitSysfs /\ [][NextSysfs]_vars

\* loading and unloading the module, and the life of the pool's objects
SpecModule == InitModule /\ [][NextModule]_vars

\* second inodes of every type, with a zone tree
FileRaws ==
    {RawInode(m, <<1, 2>>, n, 2 * BLOCK_SIZE, <<3, 4, 5>>, z) :
         m \in FileTypes, n \in {0, 1},
         z \in {ZoneArray(6, 7, 8, 10, 0), ZoneArray(6, 0, 0, 0, 10)}}

InitFile ==
    /\ disk \in InodeImages
    /\ imap = InodeBits
    /\ zmap = ZoneBits
    /\ \E raw \in FileRaws :
         itable = [PlainTable EXCEPT ![MINIX_ROOT_INO + 1] = raw]
    /\ InitCommon

NextFile == Next \/ write_inode \/ statfs

\* the volume operations together with write-back and statfs
SpecFile == InitFile /\ [][NextFile]_vars

\* inodes of every type are read and evicted step by step
SpecEvict == InitFile /\ [][NextEvict]_vars

NextTruncate ==
    minix_mount \/ iget \/ truncate_inode \/ evict \/ kill_block_super

\* inodes of every type are read, truncated and dropped
SpecTruncate == InitFile /\ [][NextTruncate]_vars

\* a device number as the old 16-bit encoding stores it, and a zone word
\* that does not fit 16 bits
SmallDev == 8 * 256 + 1
WideDev == 65536 + SmallDev

\* zone arrays of a second inode: those of a file, and for a device node
\* those whose word 0 is a device number; a V1 zone word has 16 bits
RoundTripZones(mode, v1) ==
    IF mode \in {"CHR", "BLK"}
    THEN {ZoneArray(SmallDev, 0, 0, 0, 0)}
         \cup (IF v1 THEN {} ELSE {ZoneArray(WideDev, 7, 0, 0, 0)})
    ELSE {ZoneArray(6, 7, 8, 10, 0)}

\* second inodes of every type with in-use link counts; a V1 record has an
\* 8-bit group id
RoundTripRaws(v1) ==
    UNION {{RawInode(m, ids, n, 2 * BLOCK_SIZE, <<3, 4, 5>>, z) :
                ids \in {<<1, 2>>, <<65535, IF v1 THEN 255 ELSE 65535>>},
                n \in {1, 2}, z \in RoundTripZones(m, v1)} :
           m \in FileTypes}

InitRoundTrip ==
    /\ disk \in InodeImages
    /\ imap = InodeBits
    /\ zmap = ZoneBits
    /\ \E raw \in RoundTripRaws(disk.ms.s_magic = MINIX_SUPER_MAGIC) :
         itable = [PlainTable EXCEPT ![MINIX_ROOT_INO + 1] = raw]
    /\ InitCommon

NextRoundTrip == minix_mount \/ iget \/ write_inode \/ evict \/ kill_block_super

\* inodes are read, written back unmodified, dropped and read again
SpecRoundTrip == InitRoundTrip /\ [][NextRoundTrip]_vars

\* second inodes whose every field differs from an unfilled entry
IgetRaws ==
    {RawInode("REG", <<1, 2>>, 1, 2 * BLOCK_SIZE, <<3, 4, 5>>,
              ZoneArray(6, 7, 8, 10, 0)),
     RawInode("CHR", <<1, 2>>, 0, 0, <<3, 4, 5>>, ZoneArray(6, 0, 0, 0, 0))}

InitIget ==
    /\ disk \in InodeImages
    /\ imap = InodeBits
    /\ zmap = ZoneBits
    /\ \E raw \in IgetRaws :
         itable = [PlainTable EXCEPT ![MINIX_ROOT_INO + 1] = raw]
    /\ InitCommon

\* callers of minix_iget that run at the same time
SpecIget == InitIget /\ [][NextIget]_vars

(***************************************************************************)
(* Properties.                                                             *)
(***************************************************************************)
SbDirty == SB_BLOCK \in b_dirty

\* C1: after a successful writable mount of a V1/V2 volume the in-memory
\* mount state is the on-disk s_state as it was read, the on-disk s_state
\* is that word without VALID, and the superblock buffer is dirty.
C1_WritableMount ==
    (last.op = "fill_super" /\ last.ret = 0 /\ ~last.rdonly
     /\ sbi.s_version # MINIX_V3)
    => /\ sbi.s_mount_state = last.s_state
       /\ ~HasBit(disk.ms.s_state, MINIX_VALID_FS)
       /\ disk.ms.s_state = ClearBit(last.s_state, MINIX_VALID_FS)
       /\ SbDirty

C1_Witness ==
    /\ last.op = "fill_super" /\ last.ret = 0 /\ ~last.rdonly
    /\ sbi.s_version # MINIX_V3
    /\ HasBit(last.s_state, MINIX_VALID_FS)
    /\ HasBit(last.s_state, MINIX_ERROR_FS)

\* C2 as claimed: unmount of a writable V1/V2 volume leaves VALID set in
\* the on-disk s_state and the superblock buffer dirty; unmount of a
\* read-only volume leaves the on-disk state as it was.
C2_Original ==
    last.op = "put_super"
    => IF last.before.rdonly
       THEN disk.ms.s_state = last.before.s_state
            /\ SbDirty = last.before.dirty
       ELSE last.before.version # MINIX_V3
            => HasBit(disk.ms.s_state, MINIX_VALID_FS) /\ SbDirty

\* C2 as amended: unmount of a writable V1/V2 volume writes the in-memory
\* mount state to the on-disk s_state (VALID is set again exactly when the
\* mount state has it) and marks the superblock buffer dirty; unmount of a
\* read-only volume leaves the on-disk state and the dirty mark as they were.
C2_Unmount ==
    last.op = "put_super"
    => IF last.before.rdonly
       THEN disk.ms.s_state = last.before.s_state
            /\ SbDirty = last.before.dirty
       ELSE last.before.version # MINIX_V3
            => disk.ms.s_state = last.before.mount_state /\ SbDirty

C2_Witness ==
    /\ last.op = "put_super" /\ ~last.before.rdonly
    /\ last.before.version # MINIX_V3
    /\ ~HasBit(last.before.s_state, MINIX_VALID_FS)
    /\ HasBit(disk.ms.s_state, MINIX_VALID_FS)

\* C3: after a failed minix_fill_super no block buffer is held and none was
\* released twice, the superblock info and the map array are freed, s_fs_info
\* is NULL, no volume is mounted and the value returned is a negative errno.
C3_FailedMount ==
    (last.op = "fill_super" /\ last.ret # 0)
    => /\ \A b \in Blocks : b_count[b] = 0
       /\ ~b_warn
       /\ sbi = NULL
       /\ kmem = [sbi |-> 0, map |-> 0, bad |-> FALSE]
       /\ last.fs_info = "NULL"
       /\ ~Mounted
       /\ last.ret \in {-EINVAL, -ENOMEM, -EIO}

\* a bitmap read failed after the superblock and some bitmap blocks were read
C3_Witness ==
    /\ last.op = "fill_super" /\ last.ret # 0
    /\ last.label = "out_no_bitmap" /\ last.msg = ""
    /\ last.geo.s_imap_blocks = 2 /\ last.geo.s_zmap_blocks = 2

\* C4: while a volume is mounted, bit 0 of the inode bitmap and bit 0 of the
\* zone bitmap are set.
C4_ReservedBits == Mounted => (0 \in imap /\ 0 \in zmap)

\* a mounted volume whose bitmaps came without bit 0, after an eviction that
\* released an inode and its zones
C4_Witness ==
    /\ Mounted
    /\ last.op = "evict" /\ last.inode.i_nlink = 0 /\ last.reach # {}
    /\ last.ino \notin imap

CeilDiv(a, b) == IF a % b = 0 THEN a \div b ELSE (a \div b) + 1

\* the bitmap block counts of geometry g are positive and suffice
GeoOk(g) ==
    /\ g.s_imap_blocks > 0
    /\ g.s_zmap_blocks > 0
    /\ g.s_imap_blocks >= CeilDiv(g.s_ninodes, 8 * g.s_blocksize)
    /\ g.s_zmap_blocks
         >= CeilDiv(g.s_nzones - g.s_firstdatazone + 1, 8 * g.s_blocksize)

\* the failed mount got as far as the bitmap block counts
ParsedFailure ==
    /\ last.op = "fill_super" /\ last.ret # 0
    /\ last.label \notin {"return", "out_bad_hblock", "out_bad_sb", "out_no_fs"}

\* C5: a mounted volume has positive bitmap block counts that cover its inode
\* and zone counts at its block size; a mount that read the counts fails as
\* illegal superblock exactly when one is zero, fails with the bitmap size
\* message only on a deficit, never gets past the check with a deficit, and
\* is not refused for counts that suffice or exceed.
C5_BitmapCounts ==
    /\ Mounted => GeoOk(Geo(sbi, sb.s_blocksize))
    /\ ParsedFailure =>
         /\ (last.label = "out_illegal_sb")
              <=> (last.geo.s_imap_blocks = 0 \/ last.geo.s_zmap_blocks = 0)
         /\ last.label = "out_illegal_sb" => last.ret = -EINVAL
         /\ last.msg # "" => (~GeoOk(last.geo) /\ last.label = "out_no_bitmap"
                              /\ last.ret = -EINVAL)
         /\ ~GeoOk(last.geo) => last.label # "out_no_root"
         /\ GeoOk(last.geo) => (last.label # "out_illegal_sb" /\ last.msg = "")

\* a volume mounted with more bitmap blocks than its counts need
C5_Witness ==
    /\ Mounted /\ last.op = "fill_super"
    /\ sbi.s_imap_blocks > CeilDiv(sbi.s_ninodes, 8 * sb.s_blocksize)
    /\ sbi.s_ninodes > 8 * BLOCK_SIZE

RemountTo(from_ro, to_ro) ==
    /\ last.op = "remount"
    /\ last.before.rdonly = from_ro
    /\ last.rdonly = to_ro

\* the rw -> ro remount found nothing to write back
NothingToFlush ==
    \/ HasBit(last.synced.s_state, MINIX_VALID_FS)
    \/ ~HasBit(last.synced.mount_state, MINIX_VALID_FS)

\* C6: a remount rw -> ro returns 0; when the on-disk s_state already has
\* VALID or the mount state lacks it, the on-disk s_state and the dirty mark
\* of the superblock buffer stay as they were; otherwise, on V1/V2, the
\* on-disk s_state becomes the mount state and the buffer is marked dirty.
C6_RemountReadOnly ==
    RemountTo(FALSE, TRUE)
    => /\ last.ret = 0
       /\ sbi.s_mount_state = last.synced.mount_state
       /\ IF NothingToFlush
          THEN /\ disk.ms.s_state = last.synced.s_state
               /\ SbDirty = last.synced.dirty
          ELSE last.before.version # MINIX_V3
               => /\ disk.ms.s_state = sbi.s_mount_state
                  /\ SbDirty

C6_Witness ==
    /\ RemountTo(FALSE, TRUE)
    /\ last.before.version # MINIX_V3
    /\ ~NothingToFlush
    /\ disk.ms.s_state # last.before.s_state

\* C7: a remount ro -> rw returns 0 and leaves the volume writable whatever
\* the mount state is; on V1/V2 the mount state becomes the on-disk s_state
\* found, the on-disk s_state loses VALID and nothing else, and the
\* superblock buffer is dirty; on V3 the mount state becomes VALID.
C7_RemountWritable ==
    RemountTo(TRUE, FALSE)
    => /\ last.ret = 0
       /\ ~sb.s_rdonly
       /\ IF last.before.version # MINIX_V3
          THEN /\ sbi.s_mount_state = last.before.s_state
               /\ disk.ms.s_state
                    = ClearBit(last.before.s_state, MINIX_VALID_FS)
               /\ SbDirty
          ELSE sbi.s_mount_state = MINIX_VALID_FS

\* the volume had both VALID and ERROR on disk
C7_Witness ==
    /\ RemountTo(TRUE, FALSE)
    /\ last.before.version # MINIX_V3
    /\ last.before.s_state = MINIX_VALID_FS + MINIX_ERROR_FS
    /\ disk.ms.s_state = MINIX_ERROR_FS

\* C8: a remount to the mode the volume has returns 0 and leaves the mode,
\* the mount state and the on-disk s_state as they were, and the dirty mark
\* of the superblock buffer as the sync left it.
C8_RemountSameMode ==
    (last.op = "remount" /\ last.before.rdonly = last.rdonly)
    => /\ last.ret = 0
       /\ sb.s_rdonly = last.before.rdonly
       /\ sbi.s_mount_state = last.before.mount_state
       /\ sbi.s_mount_state = last.synced.mount_state
       /\ disk.ms.s_state = last.before.s_state
       /\ disk.ms.s_state = last.synced.s_state
       /\ SbDirty = last.synced.dirty

\* rw -> rw on a V1/V2 volume whose mount state has VALID
C8_Witness ==
    /\ RemountTo(FALSE, FALSE)
    /\ last.before.version # MINIX_V3
    /\ HasBit(sbi.s_mount_state, MINIX_VALID_FS)
    /\ ~HasBit(disk.ms.s_state, MINIX_VALID_FS)

\* C9: on V1/V2, a remount rw -> ro that follows a remount ro -> rw at once
\* leaves the on-disk s_state as it was before the ro -> rw; if that state
\* had VALID, the ro -> rw left VALID in the mount state and off the disk,
\* and the rw -> ro set it on disk again.
C9_RemountRoundTrip ==
    (RemountTo(FALSE, TRUE) /\ last.after_rw
     /\ last.before.version # MINIX_V3)
    => /\ disk.ms.s_state = last.prior_state
       /\ HasBit(last.prior_state, MINIX_VALID_FS)
          => /\ HasBit(last.before.mount_state, MINIX_VALID_FS)
             /\ ~HasBit(last.before.s_state, MINIX_VALID_FS)
             /\ HasBit(disk.ms.s_state, MINIX_VALID_FS)

C9_Witness ==
    /\ RemountTo(FALSE, TRUE) /\ last.after_rw
    /\ last.before.version # MINIX_V3
    /\ HasBit(last.prior_state, MINIX_VALID_FS)
    /\ last.before.s_state # last.prior_state

\* the zones reachable from the evicted inode still marked in the zone bitmap
StillMarked == {z \in last.reach : ZoneBit(Cur, z) \in zmap}

EvictedUnlinked == Mounted /\ last.op = "evict" /\ last.inode.i_nlink = 0

\* C10 as claimed: after the eviction of an inode with link count 0, of any
\* file type, its bit in the inode bitmap is clear and so is the zone bitmap
\* bit of every zone that was reachable from its zone array.
C10_Original ==
    EvictedUnlinked => (last.ino \notin imap /\ StillMarked = {})

\* C10 as amended: after the eviction of an inode with link count 0 its bit
\* in the inode bitmap is clear, for every file type; the zone bitmap bit of
\* every zone that was reachable from its zone array is clear when the inode
\* is a regular file, a directory or a symbolic link.
C10_EvictUnlinked ==
    EvictedUnlinked
    => /\ last.ino \notin imap
       /\ icache[last.ino] = NULL
       /\ (S_ISREG(last.inode.i_mode) \/ S_ISDIR(last.inode.i_mode)
           \/ S_ISLNK(last.inode.i_mode)) => StillMarked = {}

\* a regular file with data below its size and an indirect block
C10_Witness ==
    /\ EvictedUnlinked
    /\ S_ISREG(last.inode.i_mode)
    /\ last.inode.i_size > 0
    /\ Cardinality(last.reach) >= 4
    /\ StillMarked = {}

Populating == {"new", "fields", "zones", "unlock"}

\* every field of the in-memory inode is what the raw record gives
Complete(inode, raw, version) ==
    /\ inode.i_mode = raw.i_mode
    /\ inode.i_uid = raw.i_uid /\ inode.i_gid = raw.i_gid
    /\ inode.i_nlink = raw.i_nlinks
    /\ inode.i_size = raw.i_size
    /\ IF version = MINIX_V1
       THEN /\ inode.i_mtime = raw.i_time /\ inode.i_atime = raw.i_time
            /\ inode.i_ctime = raw.i_time
            /\ Len(inode.i_data) = 9
       ELSE /\ inode.i_mtime = raw.i_mtime /\ inode.i_atime = raw.i_atime
            /\ inode.i_ctime = raw.i_ctime
            /\ Len(inode.i_data) = 10
    /\ \A k \in DOMAIN inode.i_data : inode.i_data[k] = raw.i_zone[k]
    /\ inode.i_op # "none"

\* C11: of the callers inside minix_iget of one inode at most one has the
\* fresh entry, and while it fills the entry I_NEW is set; the raw record of
\* a cached inode has been read once; a caller to whom minix_iget returned
\* the inode finds I_NEW clear and every field filled from the raw record.
C11_SingleFlight ==
    /\ \A t1, t2 \in Tasks :
         (t1 # t2 /\ tasks.of[t1].pc \in Populating
          /\ tasks.of[t2].pc \in Populating)
         => tasks.of[t1].ino # tasks.of[t2].ino
    /\ \A t \in Tasks :
         tasks.of[t].pc \in Populating
         => /\ icache[tasks.of[t].ino] # NULL
            /\ "I_NEW" \in icache[tasks.of[t].ino].i_state
    /\ \A i \in Inos : tasks.reads[i] <= 1
    /\ \A t \in Tasks :
         (tasks.of[t].pc = "done" /\ tasks.of[t].ret = 0)
         => /\ icache[tasks.of[t].ino] # NULL
            /\ "I_NEW" \notin icache[tasks.of[t].ino].i_state
            /\ Complete(icache[tasks.of[t].ino], itable[tasks.of[t].ino],
                        sbi.s_version)

\* one caller has filled part of the entry while another waits for it
C11_Witness ==
    \E t1, t2 \in Tasks :
        /\ tasks.of[t1].pc = "zones"
        /\ tasks.of[t2].pc = "lookup"
        /\ tasks.of[t1].ino = tasks.of[t2].ino
        /\ tasks.of[t1].ino # MINIX_ROOT_INO

\* C12: minix_write_inode returns -EIO when the raw record cannot be had, and
\* when the sync mode is WB_SYNC_ALL, the buffer is dirty and after the forced
\* write it was submitted and is not uptodate; otherwise it returns 0.
\* Without the sync mode no write is forced, and with the raw record had the
\* return is 0 and the buffer is left dirty.
C12_WriteInode ==
    last.op = "write_inode"
    => /\ last.ret \in {0, -EIO}
       /\ (last.ret = -EIO)
            <=> \/ ~last.env.raw_ok
                \/ /\ last.env.sync /\ last.dirty
                   /\ last.env.req /\ ~last.env.uptodate
       /\ last.forced <=> (last.env.raw_ok /\ last.env.sync /\ last.dirty)
       /\ last.forced => last.block \notin b_dirty
       /\ ~last.env.sync
          => /\ ~last.forced
             /\ last.env.raw_ok => (last.ret = 0 /\ last.block \in b_dirty)

\* the forced write was submitted and left the buffer not uptodate
C12_Witness ==
    /\ last.op = "write_inode" /\ last.ret = -EIO
    /\ last.env.raw_ok /\ last.env.sync /\ last.forced
    /\ last.env.req /\ ~last.env.uptodate

\* the inode as minix_iget reads it from the raw record
ReadOf(raw, ino) ==
    minix_iget([Cur EXCEPT !.icache[ino] = NULL, !.itable[ino] = raw],
               ino).icache[ino]

ReRead(ino) == ReadOf(itable[ino], ino)

\* the inode written back was as read from the raw record
WroteBack ==
    /\ last.op = "write_inode" /\ last.env.raw_ok
    /\ icache[last.ino] = ReadOf(last.raw, last.ino)

\* a V2 or V3 device node whose zone word 0 does not fit 16 bits
WideDevice(raw) ==
    /\ sbi.s_version # MINIX_V1
    /\ raw.i_mode \in {"CHR", "BLK"}
    /\ raw.i_zone[1] >= 65536

\* C13 as stated: for an inode of any version and type, writing back the
\* inode just read leaves the raw record unchanged, and reading it again
\* gives the same in-memory inode.
C13_Original ==
    WroteBack
    => /\ itable[last.ino] = last.raw
       /\ ReRead(last.ino) = icache[last.ino]

\* C13: the round trip is exact for every inode except a V2 or V3 device
\* node whose zone word 0 exceeds 16 bits; of that one only zone word 0
\* changes, to its low 16 bits, and the device number read again is the same.
C13_RoundTrip ==
    WroteBack
    => IF WideDevice(last.raw)
       THEN /\ itable[last.ino] =
                 [last.raw EXCEPT !.i_zone[1] = last.raw.i_zone[1] % 65536]
            /\ ReRead(last.ino) =
                 [icache[last.ino] EXCEPT !.i_data[1] = @ % 65536]
       ELSE /\ itable[last.ino] = last.raw
            /\ ReRead(last.ino) = icache[last.ino]

\* a V2 device node with a 16-bit device number was written back
C13_Witness ==
    /\ WroteBack /\ last.ino # MINIX_ROOT_INO
    /\ sbi.s_version = MINIX_V2
    /\ last.raw.i_mode = "CHR" /\ last.raw.i_zone[1] = SmallDev
    /\ icache[last.ino].i_rdev = MKDEV(8, 1)

\* the superblock was read, so the magic was probed
Probed == last.label \notin {"return", "out_bad_hblock", "out_bad_sb"}

\* what the parser selected, whether or not the mount went on to succeed
\* (format and zone count), and what a mounted volume keeps of it (directory
\* entry size, name length, link maximum)
ParsedAs(version, dirsize, namelen, links, nzones) ==
    /\ Probed => /\ last.label # "out_no_fs"
                 /\ last.geo.s_version = version
                 /\ last.geo.s_nzones = nzones
    /\ last.ret = 0 => /\ sbi.s_version = version
                       /\ sbi.s_dirsize = dirsize /\ sbi.s_namelen = namelen
                       /\ sb.s_max_links = links
                       /\ sbi.s_nzones = nzones

\* C14: the magic at the V1/V2 offset is compared first with 0x137F, 0x138F,
\* 0x2468 and 0x2478, selecting V1/16/14, V1/32/30, V2/16/14 and V2/32/30
\* with the V1 or V2 link maximum and the zone count of s_nzones (V1) or
\* s_zones (V2); only when none matches is the V3 magic at offset 24 probed,
\* selecting V3/64/60 with the V2 link maximum and the V3 geometry; with no
\* magic the mount fails with no filesystem and nothing is mounted.
C14_ParseOrder ==
    last.op = "fill_super"
    => LET ms == disk.ms
           m3s == disk.m3s
       IN CASE ms.s_magic = MINIX_SUPER_MAGIC ->
                 ParsedAs(MINIX_V1, 16, 14, MINIX_LINK_MAX, ms.s_nzones)
            [] ms.s_magic = MINIX_SUPER_MAGIC2 ->
                 ParsedAs(MINIX_V1, 32, 30, MINIX_LINK_MAX, ms.s_nzones)
            [] ms.s_magic = MINIX2_SUPER_MAGIC ->
                 ParsedAs(MINIX_V2, 16, 14, MINIX2_LINK_MAX, ms.s_zones)
            [] ms.s_magic = MINIX2_SUPER_MAGIC2 ->
                 ParsedAs(MINIX_V2, 32, 30, MINIX2_LINK_MAX, ms.s_zones)
            [] ms.s_magic \notin V12Magics
               /\ m3s.s_magic = MINIX3_SUPER_MAGIC ->
                 /\ ParsedAs(MINIX_V3, 64, 60, MINIX2_LINK_MAX, m3s.s_zones)
                 /\ Probed => /\ last.geo.s_ninodes = m3s.s_ninodes
                              /\ last.geo.s_imap_blocks = m3s.s_imap_blocks
                              /\ last.geo.s_zmap_blocks = m3s.s_zmap_blocks
                              /\ last.geo.s_firstdatazone = m3s.s_firstdatazone
            [] OTHER ->
                 /\ ~Mounted /\ last.ret # 0
                 /\ Probed => (last.label = "out_no_fs" /\ last.ret = -EINVAL)

\* an image with a V1/V2 magic and the V3 magic at offset 24 was mounted
C14_Witness ==
    /\ last.op = "fill_super" /\ last.ret = 0 /\ Mounted
    /\ disk.ms.s_magic \in V12Magics
    /\ disk.m3s.s_magic = MINIX3_SUPER_MAGIC
    /\ sbi.s_version # MINIX_V3

\* C15: a failure of sb_set_blocksize fails the mount, also when the device
\* is re-keyed to the block size of a V3 superblock: a V3 volume is never
\* mounted with a block size other than its on-disk s_blocksize.
C15_BlockSize ==
    (Mounted /\ sbi.s_version = MINIX_V3)
    => sb.s_blocksize = disk.m3s.s_blocksize

\* the buffers a mounted volume holds: the superblock and every bitmap block
HeldBlocks ==
    {sbi.s_sbh} \cup {sbi.s_map[i] : i \in 1..(sbi.s_imap_blocks + sbi.s_zmap_blocks)}

\* C16: between operations a mounted volume holds exactly one reference on
\* the superblock buffer and on each bitmap buffer and none on an inode table
\* buffer (minix_iget and minix_write_inode release it on every exit path);
\* after minix_put_super, and after a failed mount, no reference is held, and
\* no buffer was ever released more often than it was acquired, whatever
\* sequence of iget, write-back, statfs, remount and evict came before.
C16_BufferBalance ==
    /\ ~b_warn
    /\ IF Mounted
       THEN \A b \in Blocks : b_count[b] = IF b \in HeldBlocks THEN 1 ELSE 0
       ELSE \A b \in Blocks : b_count[b] = 0

\* a V1 volume was unmounted after an inode was read and written back: the
\* inode table buffer is still dirty and no reference is left
C16_Witness ==
    /\ last.op = "put_super" /\ ~Mounted
    /\ \A b \in Blocks : b_count[b] = 0
    /\ disk.ms.s_magic = MINIX_SUPER_MAGIC
    /\ (2 + disk.ms.s_imap_blocks + disk.ms.s_zmap_blocks) \in b_dirty

\* C17: when init_minix_fs returns success the filesystem is registered and
\* the inode pool still exists; the pool is destroyed only if the
\* registration failed.
C17_InitKeepsPool ==
    last.op = "init_minix_fs"
    => /\ last.ret = 0 => (mod.registered /\ mod.cachep = "live")
       /\ mod.cachep = "destroyed" => (last.ret # 0 /\ ~mod.registered)

\* C18: an inode is freed by the callback that call_rcu queued;
\* destroy_inodecache waits for every queued callback before it destroys the
\* pool, so that no free targets a destroyed pool and no reader is inside a
\* read-side section on an object that was freed.
C18_DeferredReclaim ==
    /\ "free_destroyed" \notin mod.bad
    /\ \A o \in mod.readers : mod.obj[o] # "free"

\* the device holds a V3 superblock
V3Image ==
    disk.ms.s_magic \notin V12Magics /\ disk.m3s.s_magic = MINIX3_SUPER_MAGIC

\* C19: on a V3 volume no mount, remount or unmount changes a byte of the
\* on-disk superblock; the mount state lives in memory only and is VALID
\* after the mount and after every remount.
C19_V3Superblock ==
    /\ [][V3Image => disk' = disk]_vars
    /\ []((Mounted /\ sbi.s_version = MINIX_V3)
            => sbi.s_mount_state = MINIX_VALID_FS)

\* a writable V3 volume went read-only past the early returns, which marks
\* the superblock buffer dirty
C19_Witness ==
    /\ last.op = "remount" /\ last.ret = 0
    /\ ~last.before.rdonly /\ last.rdonly
    /\ Mounted /\ sbi.s_version = MINIX_V3
    /\ SB_BLOCK \in b_dirty

\* C20: minix_truncate acts only on a regular file, a directory or a
\* symbolic link: on an inode of any other type no zone is freed, no bitmap
\* bit changes and the zone array stays as it was; on a permitted type the
\* V1 walker runs on a V1 volume and the V2 walker on a V2 or V3 volume.
C20_Truncate ==
    last.op = "truncate"
    => LET c0 == last.c0
           ino == last.ino
       IN IF c0.icache[ino].i_mode \notin {"REG", "DIR", "LNK"}
          THEN /\ zmap = c0.zmap /\ imap = c0.imap /\ indir = c0.indir
               /\ icache[ino].i_data = c0.icache[ino].i_data
          ELSE Cur = IF sbi.s_version = MINIX_V1
                     THEN V1_minix_truncate(c0, ino)
                     ELSE V2_minix_truncate(c0, ino)

\* a device node that names zones in use was truncated to nothing
C20_Witness ==
    /\ last.op = "truncate"
    /\ last.c0.icache[last.ino].i_mode = "BLK"
    /\ last.c0.icache[last.ino].i_size = 0
    /\ last.c0.icache[last.ino].i_data[1] = 6
    /\ ZoneBit(last.c0, 6) \in zmap

\* the zones of the inode that was being evicted, as they were at the call:
\* those reachable from the zone array of a regular file, a directory or a
\* symbolic link (the zone array of any other type names no zones)
EvictReach ==
    LET inode == last.c0.icache[last.ino]
    IN IF inode.i_mode \in {"REG", "DIR", "LNK"}
       THEN ReachAll(inode.i_data, last.c0.indir) ELSE {}

EvictMarked == {z \in EvictReach : ZoneBit(Cur, z) \in zmap}

IsPrefix(p, q) == Len(p) <= Len(q) /\ p = SubSeq(q, 1, Len(p))

\* C21: minix_evict_inode truncates the page cache first, then, only for
\* link count 0, zeroes the size and releases the zones, then invalidates
\* the buffers and clears the inode, and only then releases the inode bit:
\* in no state on the way is the inode bit free while a zone reachable from
\* the inode is still marked in zmap; with link count > 0 neither imap nor
\* zmap nor the size changes.
C21_EvictOrder ==
    last.op = "evict_step"
    => LET c0 == last.c0
           ino == last.ino
           inode0 == c0.icache[ino]
           calls == EvictCalls(inode0.i_nlink)
           released == ino \in c0.imap /\ ino \notin imap
       IN /\ IsPrefix(last.done, calls)
          /\ ino \notin imap => EvictMarked = {}
          /\ released => (last.done = calls /\ inode0.i_nlink = 0)
          /\ (inode0.i_nlink = 0 /\ Len(last.done) \in 2..4)
             => /\ icache[ino].i_size = 0
                /\ EvictMarked = {}
                /\ imap = c0.imap
          /\ Len(last.done) \in (Len(calls) - 1)..Len(calls)
             => (icache[ino] = NULL \/ "I_CLEAR" \in icache[ino].i_state)
          /\ inode0.i_nlink > 0
             => /\ imap = c0.imap /\ zmap = c0.zmap /\ indir = c0.indir
                /\ icache[ino] # NULL
                   => /\ icache[ino].i_size = inode0.i_size
                      /\ icache[ino].i_data = inode0.i_data
          /\ last.ret = 1
             => LET c1 == minix_evict_inode(c0, ino)
                IN /\ imap = c1.imap /\ zmap = c1.zmap /\ indir = c1.indir
                   /\ icache = c1.icache

\* an unlinked regular file on the way out: its zones are released, the
\* inode is cleared, and its bit is still set
C21_Witness ==
    /\ last.op = "evict_step" /\ Len(last.done) = 4
    /\ last.c0.icache[last.ino].i_mode = "REG"
    /\ last.c0.icache[last.ino].i_nlink = 0
    /\ Cardinality(EvictReach) >= 4
    /\ EvictMarked = {}
    /\ last.ino \in imap

\* the device holds a V1 or V2 superblock
V12Image == disk.ms.s_magic \in V12Magics

\* the state word the volume had on disk before it was mounted: a writable
\* mount keeps it in the mount state, otherwise it is on the disk
StateBeforeMount ==
    IF Mounted /\ ~sb.s_rdonly THEN sbi.s_mount_state ELSE disk.ms.s_state

\* C22: on a V1/V2 volume the state word that was on disk before the mount
\* is kept through every mount, remount and unmount and is on disk again
\* after the unmount, so VALID is set after the unmount exactly if it was set
\* before the mount and the ERROR bit is never altered; while the volume is
\* writable the on-disk state is that word without VALID.
C22_StateWord ==
    /\ [][V12Image => StateBeforeMount' = StateBeforeMount]_vars
    /\ []((V12Image /\ Mounted)
            => IF sb.s_rdonly
               THEN disk.ms.s_state = sbi.s_mount_state
               ELSE /\ ~HasBit(disk.ms.s_state, MINIX_VALID_FS)
                    /\ disk.ms.s_state
                         = ClearBit(sbi.s_mount_state, MINIX_VALID_FS))

\* a volume found with ERROR and without VALID was mounted writable and is
\* unmounted: its state word is as it was found
C22_Witness ==
    /\ last.op = "put_super" /\ ~last.before.rdonly
    /\ V12Image /\ ~Mounted
    /\ disk.ms.s_state = MINIX_ERROR_FS
    /\ last.before.mount_state = MINIX_ERROR_FS

\* the superblocks of namespace ns that exist
LiveSupers(ns) == {f \in FsNames : sysfs.supers[f][ns] > 0}

\* C23: sysfs_mount and lshfs_mount return EPERM without taking a reference
\* when the mount is not a kernel mount and is not permitted; otherwise they
\* take one reference on the network namespace and drop it before returning
\* exactly when no new superblock was made; kill_sb drops one reference.
\* After any mounts and kills the references outstanding on a namespace are
\* as many as its live superblocks, and none was dropped that nobody held.
C23_NamespaceRefs ==
    /\ ~sysfs.bad
    /\ \A ns \in Nss : sysfs.refs[ns] = Cardinality(LiveSupers(ns))
    /\ last.op = "sysfs_mount"
       => /\ (last.ret = -EPERM) <=> ~last.permitted
          /\ last.ret = -EPERM => sysfs = last.before
          /\ sysfs.refs[last.ns] =
               last.before.refs[last.ns]
               + (IF last.new_sb /\ last.ret = 0 THEN 1 ELSE 0)
          /\ (last.new_sb /\ last.ret = 0) => sysfs.visible[last.fs][last.ns]

\* a new superblock could not be filled and was killed inside the mount,
\* while the other superblock of the namespace is alive
C23_Witness ==
    /\ last.op = "sysfs_mount" /\ last.new_sb /\ last.ret # 0
    /\ last.fs = "sysfs"
    /\ sysfs.refs[last.ns] = 1
    /\ LiveSupers(last.ns) = {"lshfs"}

\* C24: when sysfs_init returns an error no kernfs root it made is left and
\* neither filesystem type is registered; when it returns 0 both roots exist
\* and both types are registered.
C24_InitCleanup ==
    last.op = "sysfs_init"
    => IF last.ret # 0
       THEN /\ \A f \in FsNames : sysfs.root[f] # "live"
            /\ sysfs.registered = {}
       ELSE /\ \A f \in FsNames : sysfs.root[f] = "live"
            /\ sysfs.registered = FsNames

====
